---- MODULE Spec2Model ----
(***************************************************************************)
(* Retrieval ranking, price-aware reordering and session pagination of     *)
(* the Tunisia Smartphone Search application (src/main.py).                *)
(*                                                                         *)
(* The specifications share the operators that model the code:             *)
(*   Spec            one user session: widget edits and page buttons, each *)
(*                   followed by the full script run of main.py:663-973;   *)
(*   SpecSource      that session with the compare buttons and a vector    *)
(*                   database that can fail and recover between runs;      *)
(*   SpecCandidates  searches over small collections of any content:       *)
(*                   Scenario A, zero and ill-sized embeddings, names and  *)
(*                   brands that are not strings;                          *)
(*   SpecReorder     the head/tail reorder pass (main.py:779-801) applied  *)
(*                   to arbitrary ranked lists and budgets;                *)
(*   SpecSort        the score sort (main.py:777) applied to arbitrary     *)
(*                   scored lists;                                         *)
(*   SpecTruncate    the sort and truncation (main.py:777-778) applied to  *)
(*                   lists of around 100 candidates;                       *)
(*   SpecScore       the scoring loop (main.py:734-774) applied to         *)
(*                   arbitrary query texts and product names;              *)
(*   SpecPages       the page slices (main.py:826-829) of arbitrary final  *)
(*                   lists;                                                *)
(*   SpecPaging      Prev and Next over the fixed list of one search;      *)
(*   SpecCompare     the compare buttons over more cards than the list     *)
(*                   may hold;                                             *)
(*   SpecSaved       the saved searches of the database layer              *)
(*                   (main.py:137-203) called for two users;               *)
(*   SpecTokens      registration, login, verification and logout of the   *)
(*                   database layer (main.py:70-135) as days pass;         *)
(*   SpecGate        a session that starts logged out: the login page, the *)
(*                   sidebar and the authentication gate                   *)
(*                   (main.py:257-327, 517-527);                           *)
(*   SpecLoaded      a logged-in session that saves searches and uses      *)
(*                   them (main.py:329-387, 667-678).                      *)
(*                                                                         *)
(* Text is a sequence of one-character strings, a score is an integer in   *)
(* units of 1/ScoreUnit, a payload price is a tagged value (a number, a    *)
(* string that float() rejects, or an absent key).                         *)
(***************************************************************************)
EXTENDS Integers, Sequences, FiniteSets, TLC

(* ------------------------------ constants ------------------------------ *)

\* main.py:779  TOP_K = 7
TOP_K == 7

\* main.py:826  items_per_page = 9
items_per_page == 9

\* main.py:778  results = results[:100]
MaxResults == 100

\* main.py:726  client.scroll(limit=500)
ScrollLimit == 500

\* main.py:562  st.number_input(..., value=5000)
DefaultBudget == 5000

\* main.py:926  if len(st.session_state.compare_list) < 5
MaxCompare == 5

\* number of records in the external catalog of the session specification
CatalogSize == 24

\* longest ranked list handed to the reorder pass in SpecReorder
MaxRanked == 10

\* longest scored list handed to the score sort in SpecSort
MaxScored == 5

\* most candidates beyond the first MaxResults in the lists of SpecTruncate
MaxDropped == 3

\* most points in a collection of SpecCandidates
MaxCandidates == 3

\* the compare buttons used in SpecSource are those of products 1..MaxCompareId
MaxCompareId == 2

\* the products of the collection of SpecCompare, one card each
CompareCards == 7

\* most saved searches ever created
MaxSearches == 3

\* the last day of the clock
MaxNow == 8

\* the last day of the clock in SpecSaved
MaxSavedNow == 1

\* most session tokens ever issued
MaxTokens == 1

\* most words in a query text of SpecScore
MaxQueryWords == 3

\* most words in a product name of SpecScore, before a word is added
MaxNameWords == 3

\* scores are integers counting 1/ScoreUnit: 3/10, 2/10, 15/100 * m/n
\* (n <= 6) and cosines with denominator 25 are all whole numbers of units
ScoreUnit == 240 * 25

(* ------------------------------- helpers ------------------------------- *)

Min(a, b) == IF a < b THEN a ELSE b

Max(a, b) == IF a > b THEN a ELSE b

\* Python abs()
Abs(x) == IF x < 0 THEN -x ELSE x

\* Python slice bound: a negative index counts from the end, and both ends
\* are clipped to [0, n]
PyIndex(i, n) == IF i < 0 THEN Max(i + n, 0) ELSE Min(i, n)

\* Python s[lo:hi] on a sequence (0-based, hi exclusive)
Slice(s, lo, hi) ==
  LET a == PyIndex(lo, Len(s))
      b == PyIndex(hi, Len(s))
  IN  IF b <= a THEN << >> ELSE [i \in 1..(b - a) |-> s[a + i]]

\* list.sort(key=...) with the ties of equal keys reversed at every call:
\* an unstable sort
TieReversingSort(s, k) ==
  LET n == Len(s)
      rank == [i \in 1..n |->
                 Cardinality({j \in 1..n : k[j] < k[i] \/ (k[j] = k[i] /\ j > i)}) + 1]
  IN  [p \in 1..n |-> s[CHOOSE i \in 1..n : rank[i] = p]]

\* Python list.sort(key=...), k[i] being the key of s[i]: ascending by key,
\* stable (elements with equal keys keep their relative order)
StableSort(s, k) ==
  LET n == Len(s)
      rank == [i \in 1..n |->
                 Cardinality({j \in 1..n : k[j] < k[i] \/ (k[j] = k[i] /\ j < i)}) + 1]
  IN  [p \in 1..n |-> s[CHOOSE i \in 1..n : rank[i] = p]]

\* ascending stable sort followed by a reversal: descending, but equal keys
\* end up in reverse order
ReversedAscendingSort(s, k) ==
  LET t == StableSort(s, k)
  IN  [p \in 1..Len(s) |-> t[Len(s) + 1 - p]]

\* Python list.sort(key=..., reverse=True), k[i] being the key of s[i]:
\* descending by key, and still stable (elements with equal keys keep their
\* relative order)
StableSortDesc(s, k) ==
  LET n == Len(s)
      rank == [i \in 1..n |->
                 Cardinality({j \in 1..n : k[j] > k[i] \/ (k[j] = k[i] /\ j < i)}) + 1]
  IN  [p \in 1..n |-> s[CHOOSE i \in 1..n : rank[i] = p]]

\* a float that is not a number (0.0 / 0.0 in numpy), kept apart from every
\* score the model can compute
NaN == 0 - 1000 * ScoreUnit

\* Python a < b on floats: false whenever either side is NaN
FloatLess(a, b) == a # NaN /\ b # NaN /\ a < b

\* where the run that starts the list ends (listobject.c count_run): a
\* strictly descending run, or one in which no element is less than the one
\* before it
RECURSIVE RunEnd(_, _, _)
RunEnd(k, i, descending) ==
  IF i >= Len(k) THEN Len(k)
  ELSE IF descending = FloatLess(k[i + 1], k[i])
       THEN RunEnd(k, i + 1, descending)
       ELSE i

\* where the pivot goes among the sorted positions l..r-1 (listobject.c
\* binarysort): after every element it is not less than
RECURSIVE InsertionPoint(_, _, _, _)
InsertionPoint(k, pivot, l, r) ==
  IF l >= r THEN l
  ELSE LET p == l + ((r - l) \div 2)
       IN  IF FloatLess(pivot, k[p])
           THEN InsertionPoint(k, pivot, l, p)
           ELSE InsertionPoint(k, pivot, p + 1, r)

\* binary insertion of the elements from position start on, order being the
\* arrangement so far (positions of the original list)
RECURSIVE BinarySort(_, _, _)
BinarySort(order, k, start) ==
  IF start > Len(order) THEN order
  ELSE LET now == [i \in 1..Len(order) |-> k[order[i]]]
           pos == InsertionPoint(now, now[start], 1, start)
       IN  BinarySort(SubSeq(order, 1, pos - 1) \o <<order[start]>>
                        \o SubSeq(order, pos, start - 1)
                        \o SubSeq(order, start + 1, Len(order)),
                      k, start + 1)

\* CPython list.sort(key=...) on fewer than 64 elements, comparison by
\* comparison: the leading run (reversed when descending), then binary
\* insertion of the rest. With keys that are all numbers it is StableSort;
\* with a NaN among them the comparisons are inconsistent and the result is
\* whatever these steps leave
InsertionSort(s, k) ==
  LET n          == Len(s)
      descending == n >= 2 /\ FloatLess(k[2], k[1])
      run        == IF n >= 2 THEN RunEnd(k, 2, descending) ELSE n
      first      == [i \in 1..n |-> IF descending /\ i <= run THEN run + 1 - i ELSE i]
      order      == BinarySort(first, k, run + 1)
  IN  [p \in 1..n |-> s[order[p]]]

Reversed(s) == [p \in 1..Len(s) |-> s[Len(s) + 1 - p]]

\* CPython list.sort(key=..., reverse=True) on fewer than 64 elements: the
\* list is reversed, sorted ascending and reversed again
InsertionSortDesc(s, k) == Reversed(InsertionSort(Reversed(s), Reversed(k)))

(* ---------------------------- payload prices --------------------------- *)

\* a payload price that is a number
Num(v) == [t |-> "num", v |-> v]

\* a payload price that is a string float() cannot parse (e.g. "n/a")
BadText == [t |-> "str", v |-> 0]

\* a payload without the "price" key
NoPrice == [t |-> "none", v |-> 0]

\* float(x) raised (ValueError for the string, never for a number)
FloatRaises(x) == x.t # "num"

\* get_price with the fallback of the except branch returning 0 instead of
\* the budget
get_price_zero(p, budget) ==
  IF p.payload.price.t = "none" THEN budget
  ELSE IF FloatRaises(p.payload.price) THEN 0
  ELSE p.payload.price.v

\* main.py:781-785  get_price: float(payload.get("price", budget)), and
\* budget when float() raises
get_price(p, budget) ==
  IF p.payload.price.t = "none" THEN budget
  ELSE IF FloatRaises(p.payload.price) THEN budget
  ELSE p.payload.price.v

(* --------------------------------- text -------------------------------- *)

UpperCase == <<"A", "B", "C", "D", "E", "F", "G", "H", "I", "J", "K", "L", "M",
               "N", "O", "P", "Q", "R", "S", "T", "U", "V", "W", "X", "Y", "Z">>

LowerCase == <<"a", "b", "c", "d", "e", "f", "g", "h", "i", "j", "k", "l", "m",
               "n", "o", "p", "q", "r", "s", "t", "u", "v", "w", "x", "y", "z">>

\* the lower-case letter of every upper-case letter
LowerMap ==
  [c \in {UpperCase[i] : i \in 1..26} |->
     LowerCase[CHOOSE i \in 1..26 : UpperCase[i] = c]]

LowerChar(c) == IF c \in DOMAIN LowerMap THEN LowerMap[c] ELSE c

\* Python str.lower()
Lower(s) == [i \in 1..Len(s) |-> LowerChar(s[i])]

\* Python "q in s" on strings: q occurs in s as a contiguous substring
IsSubstring(q, s) ==
  \E i \in 0..(Len(s) - Len(q)) : SubSeq(s, i + 1, i + Len(q)) = q

IsSpace(c) == c = " "

\* Python str.split(): the maximal runs of non-whitespace characters
RECURSIVE SplitFrom(_, _, _)
SplitFrom(s, i, word) ==
  IF i > Len(s)
  THEN IF word = << >> THEN << >> ELSE <<word>>
  ELSE IF IsSpace(s[i])
       THEN IF word = << >>
            THEN SplitFrom(s, i + 1, << >>)
            ELSE <<word>> \o SplitFrom(s, i + 1, << >>)
       ELSE SplitFrom(s, i + 1, Append(word, s[i]))

Split(s) == SplitFrom(s, 1, << >>)

\* Python "w in words" on a list
InList(w, words) == \E i \in 1..Len(words) : words[i] = w

(* -------------------------------- scoring ------------------------------ *)

Dot(u, v) == u[1] * v[1] + u[2] * v[2]

\* np.linalg.norm on the vectors of the model, whose norms are whole numbers
Norm(u) == CHOOSE r \in 0..(Abs(u[1]) + Abs(u[2])) : r * r = Dot(u, u)

\* main.py:743  cosine similarity, in score units; numpy divides 0.0 by 0.0
\* to NaN (with a warning, no exception) when either vector has norm zero
Similarity(search_vec, point_vec) ==
  IF Norm(search_vec) * Norm(point_vec) = 0
  THEN NaN
  ELSE (Dot(search_vec, point_vec) * ScoreUnit) \div (Norm(search_vec) * Norm(point_vec))

\* a payload value that is present but is not a string (None)
NoneValue == <<"None">>

IsStr(value) == value # NoneValue

\* the three terms as an if / elif chain: only the first that applies counts
BoostFirstTermOnly(query_text, payload) ==
  IF query_text = << >> THEN 0
  ELSE
    LET product_name  == Lower(payload.name)
        product_brand == Lower(payload.brand)
        query_words   == Split(query_text)
        name_words    == Split(product_name)
        matching_words ==
          Cardinality({i \in 1..Len(query_words) : InList(query_words[i], name_words)})
    IN  IF IsSubstring(query_text, product_name) THEN (ScoreUnit * 3) \div 10
        ELSE IF IsSubstring(query_text, product_brand) THEN (ScoreUnit * 2) \div 10
        ELSE IF Len(query_words) > 0
             THEN (matching_words * ((ScoreUnit * 15) \div 100)) \div Len(query_words)
             ELSE 0

\* the name term given only when the query text is the whole name
BoostExactName(query_text, payload) ==
  IF query_text = << >> THEN 0
  ELSE
    LET product_name  == Lower(payload.name)
        product_brand == Lower(payload.brand)
        query_words   == Split(query_text)
        name_words    == Split(product_name)
        matching_words ==
          Cardinality({i \in 1..Len(query_words) : InList(query_words[i], name_words)})
    IN  (IF query_text = product_name THEN (ScoreUnit * 3) \div 10 ELSE 0)
      + (IF IsSubstring(query_text, product_brand) THEN (ScoreUnit * 2) \div 10 ELSE 0)
      + (IF Len(query_words) > 0
         THEN (matching_words * ((ScoreUnit * 15) \div 100)) \div Len(query_words)
         ELSE 0)

\* main.py:746-763  lexical boost of one payload for the lower-cased query
\* text, in score units
Boost(query_text, payload) ==
  IF query_text = << >> THEN 0
  ELSE
    LET product_name  == Lower(payload.name)
        product_brand == Lower(payload.brand)
        query_words   == Split(query_text)
        name_words    == Split(product_name)
        matching_words ==
          Cardinality({i \in 1..Len(query_words) : InList(query_words[i], name_words)})
    IN  (IF IsSubstring(query_text, product_name) THEN (ScoreUnit * 3) \div 10 ELSE 0)
      + (IF IsSubstring(query_text, product_brand) THEN (ScoreUnit * 2) \div 10 ELSE 0)
      + (IF Len(query_words) > 0
         THEN (matching_words * ((ScoreUnit * 15) \div 100)) \div Len(query_words)
         ELSE 0)

\* main.py:765-774  ScoredPoint(point.id, final_score, point.payload)
ScoredPoint(point, search_vec, query_text) ==
  LET similarity == Similarity(search_vec, point.vector)
  IN  [id      |-> point.id,
       score   |-> IF similarity = NaN THEN NaN
                   ELSE similarity + Boost(query_text, point.payload),
       payload |-> point.payload]

\* main.py:743, 748-749  what makes the loop body raise for one point:
\* np.dot on vectors of different lengths (ValueError), .lower() on a name
\* or brand that is not a string (AttributeError; only with a query text)
ScoreRaises(point, search_vec, query_text) ==
  \/ Len(point.vector) # Len(search_vec)
  \/ /\ query_text # << >>
     /\ (~IsStr(point.payload.name) \/ ~IsStr(point.payload.brand))

\* main.py:740-774  the scoring loop over the fetched points
ScoreAll(points, search_vec, query_text) ==
  [i \in 1..Len(points) |-> ScoredPoint(points[i], search_vec, query_text)]

ScoreOf(x) == x.score

\* results.sort(key=score) followed by a reversal instead of reverse=True
SortByScoreReversed(scored) ==
  ReversedAscendingSort(scored, [i \in 1..Len(scored) |-> ScoreOf(scored[i])])

\* main.py:777  results.sort(key=lambda x: x.score, reverse=True)
SortByScore(scored) ==
  LET k == [i \in 1..Len(scored) |-> ScoreOf(scored[i])]
  IN  IF \E i \in 1..Len(scored) : k[i] = NaN
      THEN InsertionSortDesc(scored, k)
      ELSE StableSortDesc(scored, k)

\* main.py:778  results = results[:100]
Truncate(sorted) == Slice(sorted, 0, MaxResults)

\* the truncation done before the sort: the first 100 fetched, then sorted
TruncateThenSort(scored) == SortByScore(Truncate(scored))

\* main.py:777-778  the score sort, then the truncation of its result
SortAndTruncate(scored) == Truncate(SortByScore(scored))

(* -------------------------------- reorder ------------------------------ *)

\* main.py:787  top_similar = results[:TOP_K]
TopSimilar(results) == Slice(results, 0, TOP_K)

\* the remainder starting one element late: results[TOP_K + 1:]
RemainingSkipsOne(results) == Slice(results, TOP_K + 1, Len(results))

\* main.py:794  remaining = results[TOP_K:]
Remaining(results) == Slice(results, TOP_K, Len(results))

\* the head keyed by raw price instead of the distance to the budget
HeadKeyRawPrice(x, budget) == get_price(x, budget)

\* main.py:790  key=lambda x: abs(get_price(x) - budget)
HeadKey(x, budget) == Abs(get_price(x, budget) - budget)

\* the tail keyed by the distance to the budget instead of raw price
TailKeyDistance(x, budget) == Abs(get_price(x, budget) - budget)

\* main.py:797  key=lambda x: get_price(x)
TailKey(x, budget) == get_price(x, budget)

\* the keys of the elements of s: the head key or the tail key
ReorderKeys(s, budget, head) ==
  [i \in 1..Len(s) |->
     IF head THEN HeadKey(s[i], budget) ELSE TailKey(s[i], budget)]

\* both sorts of the reorder pass done with a sort that reverses ties
ReorderSortUnstable(s, budget, head) ==
  TieReversingSort(s, ReorderKeys(s, budget, head))

\* main.py:789-791 and 796-798  top_similar.sort(...) / remaining.sort(...)
ReorderSort(s, budget, head) ==
  StableSort(s, ReorderKeys(s, budget, head))

\* main.py:779-801  results = top_similar + remaining
Reorder(results, budget) ==
  ReorderSort(TopSimilar(results), budget, TRUE)
    \o ReorderSort(Remaining(results), budget, FALSE)

(* ----------------------- external collaborators ------------------------ *)

NameTable ==
  << <<"i", "P", "h", "o", "n", "e", " ", "1", "5">>,
     <<"G", "a", "l", "a", "x", "y", " ", "S", "2", "3">>,
     <<"R", "e", "d", "m", "i", " ", "N", "o", "t", "e">> >>

BrandTable ==
  << <<"A", "p", "p", "l", "e">>,
     <<"S", "a", "m", "s", "u", "n", "g">>,
     <<"X", "i", "a", "o", "m", "i">> >>

VectorTable == << <<3, 4>>, <<4, 3>>, <<1, 0>>, <<0, 1>> >>

\* one record of the vector database: id, stored embedding, payload
CatalogPoint(i) ==
  [id      |-> i,
   vector  |-> VectorTable[(i % 4) + 1],
   payload |-> [name     |-> NameTable[(i % 3) + 1],
                brand    |-> BrandTable[(i % 3) + 1],
                price    |-> Num(((i * 7) % 10) * 300 + 100),
                category |-> IF i % 2 = 0 THEN "Smartphone" ELSE "Ordinateur",
                color    |-> IF (i \div 2) % 2 = 0 THEN "Noir" ELSE "Bleu"]]

\* the collection "products2" of the session specification, in the order
\* scroll returns it
Catalog == [i \in 1..CatalogSize |-> CatalogPoint(i)]

\* the price condition as price < budget
MatchesFilterStrict(point, budget, category_filter, color_filter) ==
  /\ point.payload.price.t = "num"
  /\ point.payload.price.v < budget
  /\ (category_filter # "Tous" => point.payload.category = category_filter)
  /\ (color_filter # "Toutes" => point.payload.color = color_filter)

\* main.py:696-717  the filter conditions: price <= budget, and the category
\* and color matches unless the widget holds "Tous" / "Toutes"
MatchesFilter(point, budget, category_filter, color_filter) ==
  /\ point.payload.price.t = "num"
  /\ point.payload.price.v <= budget
  /\ (category_filter # "Tous" => point.payload.category = category_filter)
  /\ (color_filter # "Toutes" => point.payload.color = color_filter)

QueryIphone == <<"i", "p", "h", "o", "n", "e">>

QueryGalaxy == <<"G", "a", "l", "a", "x", "y">>

\* main.py:689  model.encode(query).tolist()
EncodeText(text) ==
  IF text = QueryIphone THEN <<1, 0>>
  ELSE IF text = QueryGalaxy THEN <<0, 1>>
  ELSE <<4, 3>>

\* main.py:684  model.encode(img).tolist()
EncodeImage(file) == <<3, 4>>

(* ------------------------------- the state ----------------------------- *)

VARIABLES
  query,            \* st.text_input, main.py:552 (text)
  budget,           \* st.number_input, main.py:558
  category_filter,  \* st.selectbox, main.py:567
  color_filter,     \* st.selectbox, main.py:576
  uploaded_file,    \* st.file_uploader, main.py:582 ("none" when empty)
  page_offset,      \* st.session_state.page_offset, main.py:248-249
  results,          \* the final ordered list of the last script run
  current_idx,      \* the offset the last run sliced at, main.py:828
  page_results,     \* the page the last run displayed, main.py:829
  view,             \* what the last run rendered
  last_event,       \* the interaction that triggered the last run
  arg_list,         \* SpecReorder / SpecSort: the input list
  arg_budget,       \* SpecReorder: the budget
  ret_list,         \* SpecReorder / SpecSort: the output list
  fn_pc,            \* SpecReorder / SpecSort: "in" before, "out" after the call
  collection,       \* the points of the collection "products2", in scroll order
  source_up,        \* whether client.scroll answers (FALSE: it raises)
  scroll_calls,     \* how many times the last run called client.scroll
  compare_list,     \* st.session_state.compare_list, main.py:246-247 (its keys)
  auth_session_token,        \* st.session_state, main.py:237-238
  auth_user,                 \* st.session_state, main.py:239-240
  show_saved_searches_page,  \* st.session_state, main.py:241-242
  loaded_search,             \* st.session_state, main.py:243-244
  using_saved_search,  \* whether the last run showed the notice of main.py:677
  users,            \* table users of users.db, main.py:42-48
  sessions,         \* table sessions, main.py:49-55
  saved_searches,   \* table saved_searches, main.py:56-66, in rowid order
  search_seq,       \* the last id AUTOINCREMENT gave a saved search
  tokens_issued,    \* how many session tokens secrets.token_urlsafe has made
  now,              \* the clock, in days
  db_ret            \* the last call of the database layer and what it returned

widgets == <<query, budget, category_filter, color_filter, uploaded_file>>

auth == <<auth_session_token, auth_user, show_saved_searches_page, loaded_search,
          using_saved_search>>

session == <<widgets, page_offset, results, current_idx, page_results, view,
             last_event, collection, source_up, scroll_calls, compare_list, auth>>

database == <<users, sessions, saved_searches, search_seq, tokens_issued, now,
              db_ret>>

pure == <<arg_list, arg_budget, ret_list, fn_pc>>

vars == <<session, database, pure>>

(* the values the user can give the widgets *)
Queries == {<< >>, QueryIphone, QueryGalaxy}

Budgets == {0, 1000, DefaultBudget}

Categories == {"Tous", "Smartphone"}

Colors == {"Toutes", "Noir"}

Uploads == {"none", "photo.jpg"}

(* --------------- the database layer: users and sessions ---------------- *)

\* None where a session token is expected (main.py:238); a token is a
\* positive number here
NoToken == 0

\* None where verify_session returns a user (main.py:121, 240)
NoUser == [user_id |-> 0, email |-> << >>]

\* NULL in a TIMESTAMP column; ORDER BY puts it below every value
NULL == 0 - 1

\* main.py:100  timedelta(days=7)
SessionDays == 7

\* main.py:72  len(password) < 8
MinPasswordLen == 8

\* main.py:139  len(name) > 100
MaxSearchNameLen == 100

\* main.py:26-31  PBKDF2 of the password under the salt: a value that
\* differs whenever the password or the salt does
hash_password(password, salt) ==
  [pwd_hash |-> <<password, salt>>, salt |-> salt]

\* main.py:33-36
verify_password(password, stored_hash, salt) ==
  hash_password(password, salt).pwd_hash = stored_hash

\* main.py:70-86  register_user with the salt secrets.token_hex made: the
\* outcome and the table users after the call. The UNIQUE email makes the
\* INSERT of a registered address fail.
register_user(email, password, salt) ==
  IF \/ email = << >>
     \/ password = << >>
     \/ Len(password) < MinPasswordLen
     \/ ~InList("@", email)
  THEN [success |-> FALSE, users |-> users]
  ELSE IF \E u \in users : u.email = Lower(email)
  THEN [success |-> FALSE, users |-> users]
  ELSE [success |-> TRUE,
        users   |-> users \cup
                      {[id            |-> Cardinality(users) + 1,
                        email         |-> Lower(email),
                        password_hash |-> hash_password(password, salt).pwd_hash,
                        password_salt |-> salt]}]

\* a session for whoever names a registered address, whatever the password
login_user_any_password(email, password) ==
  LET found == {u \in users : u.email = Lower(email)}
  IN  IF found = {}
      THEN [success |-> FALSE, session_token |-> NoToken, sessions |-> sessions]
      ELSE LET user == CHOOSE u \in found : TRUE
           IN  [success       |-> TRUE,
                session_token |-> tokens_issued + 1,
                sessions      |-> sessions \cup
                                    {[user_id       |-> user.id,
                                      session_token |-> tokens_issued + 1,
                                      expires_at    |-> now + SessionDays]}]

\* main.py:88-108  login_user: the outcome, the token and the table sessions
\* after the call. secrets.token_urlsafe(32) gives a token never given
\* before, the next number here.
login_user(email, password) ==
  LET found == {u \in users : u.email = Lower(email)}
  IN  IF found = {}
      THEN [success |-> FALSE, session_token |-> NoToken, sessions |-> sessions]
      ELSE LET user == CHOOSE u \in found : TRUE
           IN  IF ~verify_password(password, user.password_hash, user.password_salt)
               THEN [success |-> FALSE, session_token |-> NoToken,
                     sessions |-> sessions]
               ELSE [success       |-> TRUE,
                     session_token |-> tokens_issued + 1,
                     sessions      |-> sessions \cup
                                         {[user_id       |-> user.id,
                                           session_token |-> tokens_issued + 1,
                                           expires_at    |-> now + SessionDays]}]

\* a session verified without looking at its expiry
verify_session_unexpired(table, session_token) ==
  LET found == {s \in table : s.session_token = session_token}
  IN  IF found = {} THEN NoUser
      ELSE LET row  == CHOOSE s \in found : TRUE
               user == CHOOSE u \in users : u.id = row.user_id
           IN  [user_id |-> user.id, email |-> user.email]

\* main.py:110-124  verify_session against the rows of the table sessions
\* given: the user of the row of the token, None when there is no row or
\* its expires_at lies before the clock
verify_session_in(table, session_token) ==
  LET found == {s \in table : s.session_token = session_token}
  IN  IF found = {} THEN NoUser
      ELSE LET row  == CHOOSE s \in found : TRUE
               user == CHOOSE u \in users : u.id = row.user_id
           IN  IF row.expires_at < now THEN NoUser
               ELSE [user_id |-> user.id, email |-> user.email]

\* main.py:110-124  verify_session
verify_session(session_token) == verify_session_in(sessions, session_token)

\* main.py:126-135  logout_user: the table sessions after the DELETE
logout_user(session_token) ==
  {s \in sessions : s.session_token # session_token}
(* ----------------- the database layer: saved searches ------------------ *)

\* str.strip(): the text without the spaces at its ends
Strip(s) ==
  LET solid == {i \in 1..Len(s) : ~IsSpace(s[i])}
  IN  IF solid = {} THEN << >>
      ELSE SubSeq(s, CHOOSE i \in solid : \A j \in solid : i <= j,
                     CHOOSE i \in solid : \A j \in solid : i >= j)

\* main.py:146  json.dumps(filters): the text stored in the column filters
json_dumps(filters) == <<"json", filters>>

\* main.py:166  json.loads of that text
json_loads(text) == text[2]

\* the positions of the rows of the table that a WHERE on id and user_id
\* selects
RowsOf(user_id, search_id) ==
  {i \in 1..Len(saved_searches) :
     saved_searches[i].id = search_id /\ saved_searches[i].user_id = user_id}

\* main.py:137-154  create_saved_search: the outcome, the new id and the
\* table after the call. UNIQUE(user_id, name) makes the INSERT of a name
\* the user already has fail; the columns last_used and is_favorite get
\* their defaults.
create_saved_search(user_id, name, filters, keywords) ==
  IF name = << >> \/ Len(name) > MaxSearchNameLen
  THEN [success |-> FALSE, search_id |-> 0, saved_searches |-> saved_searches]
  ELSE IF \E i \in 1..Len(saved_searches) :
            /\ saved_searches[i].user_id = user_id
            /\ saved_searches[i].name = Strip(name)
  THEN [success |-> FALSE, search_id |-> 0, saved_searches |-> saved_searches]
  ELSE [success        |-> TRUE,
        search_id      |-> search_seq + 1,
        saved_searches |-> Append(saved_searches,
                                  [id          |-> search_seq + 1,
                                   user_id     |-> user_id,
                                   name        |-> Strip(name),
                                   filters     |-> json_dumps(filters),
                                   keywords    |-> keywords,
                                   created_at  |-> now,
                                   last_used   |-> NULL,
                                   is_favorite |-> 0])]

\* the rows ordered by creation time alone
OrderedBeforeByCreation(a, b) == a.created_at > b.created_at

\* ORDER BY is_favorite DESC, last_used DESC, created_at DESC puts row a
\* before row b
OrderedBefore(a, b) ==
  \/ a.is_favorite > b.is_favorite
  \/ /\ a.is_favorite = b.is_favorite
     /\ \/ a.last_used > b.last_used
        \/ /\ a.last_used = b.last_used
           /\ a.created_at > b.created_at

\* main.py:166  the dictionary made of a row
SearchDict(row) ==
  [id          |-> row.id,
   name        |-> row.name,
   filters     |-> json_loads(row.filters),
   keywords    |-> row.keywords,
   created_at  |-> row.created_at,
   is_favorite |-> row.is_favorite]

\* main.py:156-168  get_saved_searches: the lists the SELECT can return, the
\* rows of the user in an order that ORDER BY allows (rows it does not tell
\* apart come in any order)
get_saved_searches(user_id) ==
  LET mine == {i \in 1..Len(saved_searches) : saved_searches[i].user_id = user_id}
      n    == Cardinality(mine)
  IN  {[k \in 1..n |-> SearchDict(saved_searches[order[k]])] :
         order \in {f \in [1..n -> mine] :
                      /\ \A j, k \in 1..n : j # k => f[j] # f[k]
                      /\ \A j, k \in 1..n :
                           j < k => ~OrderedBefore(saved_searches[f[k]],
                                                   saved_searches[f[j]])}}

\* a DELETE that looks at the id alone
delete_saved_search_of_anyone(user_id, search_id) ==
  LET hit == {i \in 1..Len(saved_searches) : saved_searches[i].id = search_id}
      Kept(row) == row.id # search_id
  IN  IF hit = {}
      THEN [success |-> FALSE, saved_searches |-> saved_searches]
      ELSE [success |-> TRUE, saved_searches |-> SelectSeq(saved_searches, Kept)]

\* main.py:170-184  delete_saved_search: the outcome and the table after
\* the call
delete_saved_search(user_id, search_id) ==
  LET Kept(row) == ~(row.id = search_id /\ row.user_id = user_id)
  IN  IF RowsOf(user_id, search_id) = {}
      THEN [success |-> FALSE, saved_searches |-> saved_searches]
      ELSE [success |-> TRUE, saved_searches |-> SelectSeq(saved_searches, Kept)]

\* main.py:186-203  toggle_favorite: the outcome and the table after the
\* call
toggle_favorite(user_id, search_id) ==
  IF RowsOf(user_id, search_id) = {}
  THEN [success |-> FALSE, saved_searches |-> saved_searches]
  ELSE [success |-> TRUE,
        saved_searches |->
          [i \in 1..Len(saved_searches) |->
             IF i \in RowsOf(user_id, search_id)
             THEN [saved_searches[i] EXCEPT
                     !.is_favorite = 1 - saved_searches[i].is_favorite]
             ELSE saved_searches[i]]]

(* ---------------------------- the script run --------------------------- *)

\* main.py:667-691  the query vector: the image when one is uploaded, else
\* the text when there is one, else None (the empty tuple here)
SearchVector(q, up) ==
  IF up # "none" THEN EncodeImage(up)
  ELSE IF q # << >> THEN EncodeText(q)
  ELSE << >>

\* main.py:738  query_text = query.lower() if query else ""
QueryText(q) == IF q # << >> THEN Lower(q) ELSE << >>

\* main.py:723-729  client.scroll(scroll_filter=..., limit=500)
Fetch(b, cat, col) ==
  LET Keep(point) == MatchesFilter(point, b, cat, col)
  IN  Slice(SelectSeq(collection, Keep), 0, ScrollLimit)

\* main.py:740-774  the scoring loop raises: nothing in it catches what one
\* point raises
PipelineRaises(q, b, cat, col, up) ==
  LET points == Fetch(b, cat, col)
  IN  \E i \in 1..Len(points) :
        ScoreRaises(points[i], SearchVector(q, up), QueryText(q))

\* client.scroll called again after a failure
ScrollCallsWithRetry == IF source_up THEN 1 ELSE 2

\* main.py:723-729  the one call of client.scroll in a run that searches
ScrollCalls == 1

\* the final list with the order turned round while products are selected
\* for comparison
PipelineByCompareList(q, b, cat, col, up) ==
  LET rs == Reorder(SortAndTruncate(
              ScoreAll(Fetch(b, cat, col), SearchVector(q, up), QueryText(q))), b)
  IN IF compare_list = {} THEN rs ELSE Reversed(rs)

\* main.py:723-801  fetch, score, sort by score, truncate, reorder
Pipeline(q, b, cat, col, up) ==
  Reorder(SortAndTruncate(
            ScoreAll(Fetch(b, cat, col), SearchVector(q, up), QueryText(q))), b)

\* the page count as one more than the number of full pages
TotalPagesFloorPlusOne(rs) == (Len(rs) \div items_per_page) + 1

\* main.py:827  total_pages
TotalPages(rs) ==
  (Len(rs) \div items_per_page) + (IF Len(rs) % items_per_page > 0 THEN 1 ELSE 0)

\* the page taken one element longer
PageSliceOneMore(rs, offset) == Slice(rs, offset, offset + items_per_page + 1)

\* main.py:829  page_results = results[current_idx : current_idx + items_per_page]
PageSlice(rs, offset) == Slice(rs, offset, offset + items_per_page)

\* main.py:878  p.get('name', 'Product Name')[:50] raises TypeError on a name
\* that is not a string: the positions of such cards in the page
BadCards(page) == {i \in 1..Len(page) : ~IsStr(page[i].payload.name)}

\* main.py:693-973  what the search section of a run computes and shows for
\* the query, budget, filters, image and cursor it is given. Whatever is
\* raised between main.py:694 and 970 ends in the error message of
\* main.py:971-973.
SearchOutcome(q, b, cat, col, up, offset) ==
  IF SearchVector(q, up) = << >>
  THEN [results |-> << >>, current_idx |-> 0, page_results |-> << >>,
        view |-> "welcome", scroll_calls |-> 0]
  ELSE IF ~source_up \/ PipelineRaises(q, b, cat, col, up)
  THEN [results |-> << >>, current_idx |-> 0, page_results |-> << >>,
        view |-> "error", scroll_calls |-> ScrollCalls]
  ELSE LET rs   == Pipeline(q, b, cat, col, up)
           page == PageSlice(rs, offset)
       IN  IF Len(rs) = 0
           THEN [results |-> rs, current_idx |-> 0, page_results |-> << >>,
                 view |-> "no_products", scroll_calls |-> ScrollCalls]
           ELSE IF BadCards(page) = {}
           THEN [results |-> rs, current_idx |-> offset, page_results |-> page,
                 view |-> "results", scroll_calls |-> ScrollCalls]
           ELSE [results      |-> rs,
                 current_idx  |-> offset,
                 page_results |-> SubSeq(page, 1,
                                         (CHOOSE i \in BadCards(page) :
                                            \A j \in BadCards(page) : i <= j) - 1),
                 view         |-> "error",
                 scroll_calls |-> ScrollCalls]

\* None where a saved search is expected (main.py:244)
NoSearch ==
  [id |-> 0, name |-> << >>,
   filters |-> [query |-> << >>, budget |-> 0, category |-> "Tous",
                color |-> "Toutes"],
   keywords |-> << >>, created_at |-> 0, is_favorite |-> 0]

\* a user returned for whatever the session holds, the token not looked up
get_current_user_unverified(token, user, table) ==
  [user |-> user, auth_session_token |-> token, auth_user |-> user]

\* main.py:257-267  get_current_user for the token and the user the session
\* holds and the rows of the table sessions: the user it returns and what
\* it leaves in the session
get_current_user(token, user, table) ==
  IF token # NoToken
  THEN IF verify_session_in(table, token) # NoUser
       THEN [user               |-> verify_session_in(table, token),
             auth_session_token |-> token,
             auth_user          |-> verify_session_in(table, token)]
       ELSE [user |-> NoUser, auth_session_token |-> NoToken, auth_user |-> NoUser]
  ELSE [user |-> NoUser, auth_session_token |-> token, auth_user |-> user]

\* a saved search used in every run that finds one loaded
UsesLoadedSearchAlways(up, loaded) == loaded # NoSearch

\* main.py:667-671  the run uses the saved search that is loaded: the test
\* stands in the branch of the uploaded image
UsesLoadedSearch(up, loaded) == up # "none" /\ loaded # NoSearch

\* what a run finds in the session and in the table sessions
Held ==
  [token    |-> auth_session_token,
   user     |-> auth_user,
   sessions |-> sessions,
   show     |-> show_saved_searches_page,
   loaded   |-> loaded_search]

\* main.py:517-973  one run of the script, for the widget values and the
\* cursor it finds and the session in held. The run that stops at the saved
\* searches page (main.py:520-522) or at the login page (main.py:525-527)
\* does not reach the widgets, and streamlit forgets the value of a widget
\* that a run does not render. With an image and a saved search loaded, the
\* saved search replaces the query, the budget and the filters of the run
\* (main.py:671-678).
RunScript(q, b, cat, col, up, offset, held) ==
  LET current == get_current_user(held.token, held.user, held.sessions)
  IN  /\ auth_session_token' = current.auth_session_token
      /\ auth_user' = current.auth_user
      /\ IF held.show \/ current.user = NoUser
         THEN /\ view' = IF ~held.show THEN "login"
                         ELSE IF current.user = NoUser THEN "please_log_in"
                         ELSE "saved_searches"
              /\ query' = << >>
              /\ budget' = DefaultBudget
              /\ category_filter' = "Tous"
              /\ color_filter' = "Toutes"
              /\ uploaded_file' = "none"
              /\ results' = << >>
              /\ current_idx' = 0
              /\ page_results' = << >>
              /\ scroll_calls' = 0
              /\ loaded_search' = held.loaded
              /\ using_saved_search' = FALSE
         ELSE LET use == UsesLoadedSearch(up, held.loaded)
                  used == IF use
                          THEN [q   |-> held.loaded.keywords,
                                b   |-> held.loaded.filters.budget,
                                cat |-> held.loaded.filters.category,
                                col |-> held.loaded.filters.color]
                          ELSE [q |-> q, b |-> b, cat |-> cat, col |-> col]
              IN  /\ query' = q
                  /\ budget' = b
                  /\ category_filter' = cat
                  /\ color_filter' = col
                  /\ uploaded_file' = up
                  /\ loaded_search' = IF use THEN NoSearch ELSE held.loaded
                  /\ using_saved_search' = use
                  /\ \E out \in {SearchOutcome(used.q, used.b, used.cat, used.col,
                                                up, offset)} :
                       /\ results' = out.results
                       /\ current_idx' = out.current_idx
                       /\ page_results' = out.page_results
                       /\ view' = out.view
                       /\ scroll_calls' = out.scroll_calls

\* the last run rendered the widgets of main.py:552-586
WidgetsShown == view \in {"welcome", "results", "no_products", "error"}

(* a widget edit re-runs the script with the new value; nothing in the run *)
(* writes page_offset                                                      *)
SetQuery(q) ==
  /\ WidgetsShown
  /\ q # query
  /\ UNCHANGED page_offset
  /\ last_event' = "input"
  /\ RunScript(q, budget, category_filter, color_filter, uploaded_file, page_offset, Held)
  /\ UNCHANGED <<collection, source_up, compare_list, show_saved_searches_page,
                 database, pure>>

SetBudget(b) ==
  /\ WidgetsShown
  /\ b # budget
  /\ UNCHANGED page_offset
  /\ last_event' = "input"
  /\ RunScript(query, b, category_filter, color_filter, uploaded_file, page_offset, Held)
  /\ UNCHANGED <<collection, source_up, compare_list, show_saved_searches_page,
                 database, pure>>

SetCategory(cat) ==
  /\ WidgetsShown
  /\ cat # category_filter
  /\ UNCHANGED page_offset
  /\ last_event' = "input"
  /\ RunScript(query, budget, cat, color_filter, uploaded_file, page_offset, Held)
  /\ UNCHANGED <<collection, source_up, compare_list, show_saved_searches_page,
                 database, pure>>

SetColor(col) ==
  /\ WidgetsShown
  /\ col # color_filter
  /\ UNCHANGED page_offset
  /\ last_event' = "input"
  /\ RunScript(query, budget, category_filter, col, uploaded_file, page_offset, Held)
  /\ UNCHANGED <<collection, source_up, compare_list, show_saved_searches_page,
                 database, pure>>

SetUpload(up) ==
  /\ WidgetsShown
  /\ up # uploaded_file
  /\ UNCHANGED page_offset
  /\ last_event' = "input"
  /\ RunScript(query, budget, category_filter, color_filter, up, page_offset, Held)
  /\ UNCHANGED <<collection, source_up, compare_list, show_saved_searches_page,
                 database, pure>>

\* Previous Page never disabled at the first page
PrevDisabledBelowZero == page_offset < 0

\* main.py:947  disabled=(st.session_state.page_offset < items_per_page)
PrevDisabled == page_offset < items_per_page

\* Next Page disabled only once the cursor is past the end of the list
NextDisabledPastEnd == page_offset >= Len(results)

\* main.py:964  disabled=((page_offset + items_per_page) >= len(results))
NextDisabled == (page_offset + items_per_page) >= Len(results)

\* Next Page advancing by one item instead of one page
NextOffsetByOne(offset) == offset + 1

\* main.py:965  st.session_state.page_offset += items_per_page
NextOffset(offset) == offset + items_per_page

\* main.py:948  st.session_state.page_offset -= items_per_page
PrevOffset(offset) == offset - items_per_page

\* main.py:520-527  the run gets past the saved searches page and the login
\* page
GatePasses ==
  /\ ~show_saved_searches_page
  /\ get_current_user(auth_session_token, auth_user, sessions).user # NoUser

\* what the search section of a run over the widgets as they stand shows
WidgetOutcome ==
  SearchOutcome(query, budget, category_filter, color_filter, uploaded_file,
                page_offset)

\* the run that handles a click on a page button (main.py:947, 964) reaches
\* that button only if it gets past the gate and its own fetch succeeds. The
\* widgets and the collection are those of the run that showed the button,
\* so nothing else can keep it from the button, unless that run showed the
\* results of a saved search: then the run of the click searches with the
\* widgets and has to arrive at results of its own.
ButtonsReached ==
  /\ GatePasses
  /\ IF using_saved_search THEN WidgetOutcome.view = "results" ELSE source_up

\* main.py:921  the same for the compare button of product p_id, which the
\* run of the click has to show on its page
CardReached(p_id) ==
  /\ GatePasses
  /\ IF using_saved_search
     THEN \E i \in 1..Len(WidgetOutcome.page_results) :
            WidgetOutcome.page_results[i].id = p_id
     ELSE source_up

\* main.py:963-967  the Next Page button, shown with the results; a disabled
\* button takes no click; the handler moves the cursor and st.rerun() runs
\* the script again
NextPage ==
  /\ view = "results"
  /\ IF NextDisabled
     THEN UNCHANGED vars
     ELSE /\ page_offset' = IF ButtonsReached THEN NextOffset(page_offset) ELSE page_offset
          /\ last_event' = "next"
          /\ RunScript(query, budget, category_filter, color_filter, uploaded_file,
                       page_offset', Held)
          /\ UNCHANGED <<collection, source_up, compare_list,
                         show_saved_searches_page, database, pure>>

\* main.py:946-950  the Previous Page button
PrevPage ==
  /\ view = "results"
  /\ IF PrevDisabled
     THEN UNCHANGED vars
     ELSE /\ page_offset' = IF ButtonsReached THEN PrevOffset(page_offset) ELSE page_offset
          /\ last_event' = "prev"
          /\ RunScript(query, budget, category_filter, color_filter, uploaded_file,
                       page_offset', Held)
          /\ UNCHANGED <<collection, source_up, compare_list,
                         show_saved_searches_page, database, pure>>

\* a product added while at most five are selected
CanAddToCompareAtLimit == Cardinality(compare_list) <= MaxCompare

\* main.py:926  if len(st.session_state.compare_list) < 5
CanAddToCompare == Cardinality(compare_list) < MaxCompare

\* main.py:921-931  the compare button of the card of product p_id: it
\* removes a selected product, adds an unselected one while fewer than five
\* are selected, and st.rerun() runs the script again
ToggleCompare(p_id) ==
  /\ view = "results"
  /\ \E i \in 1..Len(page_results) : page_results[i].id = p_id
  /\ compare_list' =
       IF ~CardReached(p_id) THEN compare_list
       ELSE IF p_id \in compare_list THEN compare_list \ {p_id}
       ELSE IF CanAddToCompare THEN compare_list \cup {p_id}
       ELSE compare_list
  /\ last_event' = "compare"
  /\ RunScript(query, budget, category_filter, color_filter, uploaded_file, page_offset, Held)
  /\ UNCHANGED <<page_offset, collection, source_up, show_saved_searches_page,
                 database, pure>>

\* main.py:615, 656-659  the Clear Comparison List button, shown above the
\* search while the list is not empty: it empties the list and st.rerun()
\* runs the script again
ClearCompare ==
  /\ WidgetsShown
  /\ compare_list # {}
  /\ compare_list' = IF GatePasses THEN {} ELSE compare_list
  /\ last_event' = "clear"
  /\ RunScript(query, budget, category_filter, color_filter, uploaded_file, page_offset, Held)
  /\ UNCHANGED <<page_offset, collection, source_up, show_saved_searches_page,
                 database, pure>>

\* the vector database stops answering / answers again
SourceFails ==
  /\ source_up
  /\ source_up' = FALSE
  /\ UNCHANGED <<widgets, page_offset, results, current_idx, page_results, view,
                 last_event, collection, scroll_calls, compare_list, auth,
                 database, pure>>

SourceRecovers ==
  /\ ~source_up
  /\ source_up' = TRUE
  /\ UNCHANGED <<widgets, page_offset, results, current_idx, page_results, view,
                 last_event, collection, scroll_calls, compare_list, auth,
                 database, pure>>

\* main.py:558-586  the filter widgets at their defaults
FilterDefaults ==
  /\ budget = DefaultBudget
  /\ category_filter = "Tous"
  /\ color_filter = "Toutes"

\* the address and the password of the user of the session specifications
TheEmail == <<"a", "@", "x">>

ThePassword == <<"p", "a", "s", "s", "w", "o", "r", "d">>

\* no call of the database layer made yet
NoCall == [call |-> "none"]

\* main.py:70-108, 299-306  the database and the session after that user
\* registered and logged in, no search saved
LoggedIn ==
  /\ users = {[id            |-> 1,
               email         |-> TheEmail,
               password_hash |-> hash_password(ThePassword, 1).pwd_hash,
               password_salt |-> 1]}
  /\ sessions = {[user_id |-> 1, session_token |-> 1, expires_at |-> SessionDays]}
  /\ tokens_issued = 1
  /\ now = 0
  /\ saved_searches = << >>
  /\ search_seq = 0
  /\ db_ret = NoCall
  /\ auth_session_token = 1
  /\ auth_user = [user_id |-> 1, email |-> TheEmail]
  /\ show_saved_searches_page = FALSE
  /\ loaded_search = NoSearch
  /\ using_saved_search = FALSE

\* main.py:246-251  the session state after the login, nothing searched yet
SessionDefaults ==
  /\ LoggedIn
  /\ page_offset = 0
  /\ results = << >>
  /\ current_idx = 0
  /\ page_results = << >>
  /\ view = "welcome"
  /\ last_event = "start"
  /\ scroll_calls = 0
  /\ compare_list = {}
  /\ source_up = TRUE

\* main.py:246-251 and the first script run: default widgets, no search
SessionInit ==
  /\ query = << >>
  /\ uploaded_file = "none"
  /\ FilterDefaults
  /\ SessionDefaults

PureIdle ==
  /\ arg_list = << >>
  /\ arg_budget = 0
  /\ ret_list = << >>
  /\ fn_pc = "idle"

Init == SessionInit /\ collection = Catalog /\ PureIdle

Next ==
  \/ \E q \in Queries : SetQuery(q)
  \/ \E b \in Budgets : SetBudget(b)
  \/ \E cat \in Categories : SetCategory(cat)
  \/ \E col \in Colors : SetColor(col)
  \/ \E up \in Uploads : SetUpload(up)
  \/ NextPage
  \/ PrevPage

Spec == Init /\ [][Next]_vars

(* ------------- the session with a vector database that can fail -------- *)

\* the products whose compare button the user clicks
CompareIds == 1..MaxCompareId

NextSource ==
  \/ \E q \in Queries : SetQuery(q)
  \/ NextPage
  \/ PrevPage
  \/ \E p_id \in CompareIds : ToggleCompare(p_id)
  \/ ClearCompare
  \/ SourceFails
  \/ SourceRecovers

SpecSource == Init /\ [][NextSource]_vars

(* ------------------- the reorder pass on arbitrary lists --------------- *)

\* the payload prices of SpecReorder: two numbers on either side of the
\* budgets, an unparsable string and an absent key
PriceInputs == {Num(1), Num(3), BadText, NoPrice}

ReorderBudgets == {2, 3}

\* a score-ranked list of n candidates with the given prices: ids are the
\* ranks, scores descend
RankedList(n, price) ==
  [i \in 1..n |-> [id |-> i, score |-> n - i, payload |-> [price |-> price[i]]]]

\* ranked lists of up to MaxRanked candidates whose prices take at most two
\* of the PriceInputs
InitReorder ==
  /\ SessionInit
  /\ collection = << >>
  /\ \E n \in 0..MaxRanked : \E x, y \in PriceInputs : \E price \in [1..n -> {x, y}] :
       arg_list = RankedList(n, price)
  /\ arg_budget \in ReorderBudgets
  /\ ret_list = << >>
  /\ fn_pc = "in"

\* main.py:779-801 applied to arg_list
ApplyReorder ==
  /\ fn_pc = "in"
  /\ ret_list' = Reorder(arg_list, arg_budget)
  /\ fn_pc' = "out"
  /\ UNCHANGED <<arg_list, arg_budget, session, database>>

NextReorder == ApplyReorder

SpecReorder == InitReorder /\ [][NextReorder]_vars

(* -------------------- the score sort on arbitrary lists ---------------- *)

ScoreInputs == {-300, 0, 4500, 7800}

\* n scored candidates in fetch order: ids are the fetch positions
ScoredList(n, score) ==
  [i \in 1..n |-> [id |-> i, score |-> score[i], payload |-> [price |-> Num(1)]]]

InitSort ==
  /\ SessionInit
  /\ collection = << >>
  /\ \E n \in 0..MaxScored : \E score \in [1..n -> ScoreInputs] :
       arg_list = ScoredList(n, score)
  /\ arg_budget = 0
  /\ ret_list = << >>
  /\ fn_pc = "in"

\* main.py:777 applied to arg_list
ApplySort ==
  /\ fn_pc = "in"
  /\ ret_list' = SortByScore(arg_list)
  /\ fn_pc' = "out"
  /\ UNCHANGED <<arg_list, arg_budget, session, database>>

NextSort == ApplySort

SpecSort == InitSort /\ [][NextSort]_vars

(* ------------- the sort and truncation on lists beyond 100 ------------- *)

\* the lengths around the limit of main.py:778
TruncateLengths ==
  {0, 1, MaxResults - 1, MaxResults} \cup (MaxResults + 1)..(MaxResults + MaxDropped)

\* the score of the i-th fetched candidate under the pattern <<step, modulus>>
PatternScore(pattern, i) == ((i * pattern[1]) % pattern[2]) * 100

\* all scores equal; two or seven score values recurring along the fetch
\* order; all scores distinct, ascending, descending or scattered
ScorePatterns ==
  {<<1, 1>>, <<1, 2>>, <<1, 7>>, <<3, 7>>, <<1, 211>>, <<210, 211>>, <<5, 211>>}

InitTruncate ==
  /\ SessionInit
  /\ collection = << >>
  /\ \E n \in TruncateLengths : \E pattern \in ScorePatterns :
       arg_list = ScoredList(n, [i \in 1..n |-> PatternScore(pattern, i)])
  /\ arg_budget = 0
  /\ ret_list = << >>
  /\ fn_pc = "in"

\* main.py:777-778 applied to arg_list
ApplySortAndTruncate ==
  /\ fn_pc = "in"
  /\ ret_list' = SortAndTruncate(arg_list)
  /\ fn_pc' = "ranked"
  /\ UNCHANGED <<arg_list, arg_budget, session, database>>

\* main.py:779-801 applied to the truncated list
ApplyReorderRanked ==
  /\ fn_pc = "ranked"
  /\ ret_list' = Reorder(ret_list, arg_budget)
  /\ fn_pc' = "out"
  /\ UNCHANGED <<arg_list, arg_budget, session, database>>

NextTruncate == ApplySortAndTruncate \/ ApplyReorderRanked

SpecTruncate == InitTruncate /\ [][NextTruncate]_vars

(* ------------- searches over small collections of any content --------- *)

\* the two candidates of Scenario A, a point whose embedding is all zeros,
\* one whose embedding has another dimension than the query vector, one
\* whose name and one whose brand is not a string
Iphone15 ==
  [vector |-> <<4, 3>>, name |-> NameTable[1], brand |-> BrandTable[1],
   price |-> Num(3000)]

GalaxyS23 ==
  [vector |-> <<1, 0>>, name |-> NameTable[2], brand |-> BrandTable[2],
   price |-> Num(1800)]

ZeroEmbedding ==
  [vector |-> <<0, 0>>, name |-> NameTable[3], brand |-> BrandTable[3],
   price |-> Num(1500)]

LongEmbedding ==
  [vector |-> <<1, 0, 0>>, name |-> NameTable[3], brand |-> BrandTable[3],
   price |-> Num(1500)]

NamelessPoint ==
  [vector |-> <<0, 1>>, name |-> NoneValue, brand |-> BrandTable[3],
   price |-> Num(1500)]

BrandlessPoint ==
  [vector |-> <<0, 1>>, name |-> NameTable[3], brand |-> NoneValue,
   price |-> Num(1500)]

CandidateKinds ==
  {Iphone15, GalaxyS23, ZeroEmbedding, LongEmbedding, NamelessPoint, BrandlessPoint}

\* the point of the collection at position i, of the given kind
CandidatePoint(i, kind) ==
  [id      |-> i,
   vector  |-> kind.vector,
   payload |-> [name |-> kind.name, brand |-> kind.brand, price |-> kind.price,
                category |-> "Smartphone", color |-> "Noir"]]

\* the budgets of Scenario A and around the price of its iPhone
ScenarioBudgets == {2000, 3000, DefaultBudget}

\* the query texts of SpecCandidates
ScenarioQueries == {<< >>, QueryIphone}

InitCandidates ==
  /\ SessionInit
  /\ \E n \in 0..MaxCandidates : \E kinds \in [1..n -> CandidateKinds] :
       collection = [i \in 1..n |-> CandidatePoint(i, kinds[i])]
  /\ PureIdle

NextCandidates ==
  \/ \E q \in ScenarioQueries : SetQuery(q)
  \/ \E b \in ScenarioBudgets : SetBudget(b)
  \/ \E up \in Uploads : SetUpload(up)

SpecCandidates == InitCandidates /\ [][NextCandidates]_vars

(* ------------------- the scoring loop on arbitrary text ---------------- *)

\* the words texts are made of: the lower-cased first is a substring of the
\* lower-cased second without being the same word
Words == {<<"a">>, <<"A", "b">>}

\* " ".join(words)
RECURSIVE Join(_)
Join(words) ==
  IF words = << >> THEN << >>
  ELSE IF Len(words) = 1 THEN words[1]
  ELSE words[1] \o <<" ">> \o Join(Tail(words))

\* the texts of at most n words
Texts(n) == {Join(w) : w \in UNION {[1..k -> Words] : k \in 0..n}}

\* what the user can type: up to MaxQueryWords words, or one blank
ScoreQueries == Texts(MaxQueryWords) \cup {<<" ">>}

ScoreNames == Texts(MaxNameWords)

ScoreBrands == {<<"A", "b">>, <<"x">>}

ScoreVectors == {<<4, 3>>, <<0, 1>>}

\* a fetched point with the given name, brand and embedding
ScorePoint(id, name, brand, vector) ==
  [id      |-> id,
   vector  |-> vector,
   payload |-> [name |-> name, brand |-> brand, price |-> Num(1),
                category |-> "Smartphone", color |-> "Noir"]]

\* words with w inserted after its first pos words
InsertAt(words, pos, w) ==
  SubSeq(words, 1, pos) \o <<w>> \o SubSeq(words, pos + 1, Len(words))

\* one fetched point, and widgets that make the run search
InitScore ==
  /\ query \in ScoreQueries
  /\ uploaded_file \in Uploads
  /\ SearchVector(query, uploaded_file) # << >>
  /\ FilterDefaults
  /\ SessionDefaults
  /\ collection = << >>
  /\ \E name \in ScoreNames : \E brand \in ScoreBrands : \E vector \in ScoreVectors :
       arg_list = <<ScorePoint(1, name, brand, vector)>>
  /\ arg_budget = 0
  /\ ret_list = << >>
  /\ fn_pc = "in"

\* the collection also holds the product under a longer name: the word w
\* added after the first pos words of the name
AddWord(w, pos) ==
  /\ fn_pc = "in"
  /\ Len(arg_list) = 1
  /\ LET point      == arg_list[1]
         name_words == Split(point.payload.name)
     IN  /\ pos <= Len(name_words)
         /\ arg_list' =
              <<point, ScorePoint(2, Join(InsertAt(name_words, pos, w)),
                                  point.payload.brand, point.vector)>>
  /\ UNCHANGED <<arg_budget, ret_list, fn_pc, session, database>>

\* main.py:734-774 applied to arg_list
ApplyScore ==
  /\ fn_pc = "in"
  /\ ret_list' = ScoreAll(arg_list, SearchVector(query, uploaded_file), QueryText(query))
  /\ fn_pc' = "scored"
  /\ UNCHANGED <<arg_list, arg_budget, session, database>>

NextScore ==
  \/ ApplyScore
  \/ \E pos \in 0..MaxNameWords :
       \E i \in 1..Len(Split(QueryText(query))) :
         AddWord(Split(QueryText(query))[i], pos)

SpecScore == InitScore /\ [][NextScore]_vars

(* --------------------- paging through a final list --------------------- *)

\* a final list of any length the truncation allows, the cursor at 0
InitPages ==
  /\ SessionInit
  /\ collection = << >>
  /\ \E n \in 0..MaxResults : arg_list = RankedList(n, [i \in 1..n |-> Num(1)])
  /\ arg_budget = 0
  /\ ret_list = << >>
  /\ fn_pc = "in"

\* main.py:827-829, 965  the page at the cursor is sliced out of arg_list and
\* the cursor moves one page on, for the offsets 0 .. (total_pages - 1) * 9;
\* ret_list collects the pages
TakePage ==
  /\ fn_pc = "in"
  /\ page_offset <= (TotalPages(arg_list) - 1) * items_per_page
  /\ current_idx' = page_offset
  /\ page_results' = PageSlice(arg_list, page_offset)
  /\ ret_list' = ret_list \o page_results'
  /\ page_offset' = NextOffset(page_offset)
  /\ UNCHANGED <<widgets, results, view, last_event, collection, source_up,
                 scroll_calls, compare_list, auth, database, arg_list,
                 arg_budget, fn_pc>>

NextPages == TakePage

SpecPages == InitPages /\ [][NextPages]_vars

(* --------------- paging through the list of one fixed search ----------- *)

\* a new session over the first n points of the collection
InitPaging ==
  /\ SessionInit
  /\ \E n \in 0..CatalogSize : collection = SubSeq(Catalog, 1, n)
  /\ PureIdle

\* one search is made, from the welcome page, and then only the page buttons
\* are clicked: every run repeats that search
NextPaging ==
  \/ \E q \in Queries : view = "welcome" /\ SetQuery(q)
  \/ \E up \in Uploads : view = "welcome" /\ SetUpload(up)
  \/ NextPage
  \/ PrevPage

SpecPaging == InitPaging /\ [][NextPaging]_vars

(* ------------------ the comparison list on one page of cards ----------- *)

\* the products whose cards SpecCompare shows
CompareCardIds == 1..CompareCards

\* a new session over a collection of CompareCards products
InitCompare ==
  /\ SessionInit
  /\ collection = [i \in CompareCardIds |-> CatalogPoint(i)]
  /\ PureIdle

\* an image search that shows every product on one page, and the buttons of
\* the comparison
NextCompare ==
  \/ \E up \in Uploads : SetUpload(up)
  \/ \E p_id \in CompareCardIds : ToggleCompare(p_id)
  \/ ClearCompare

SpecCompare == InitCompare /\ [][NextCompare]_vars

(* ------------- the saved searches of the database, called directly ----- *)

\* the user ids the calls are made for
SearchUsers == 1..2

\* a name longer than create_saved_search accepts
LongName == [i \in 1..(MaxSearchNameLen + 1) |-> "x"]

\* the names given to create_saved_search
SearchNames == {<< >>, <<"a">>, <<" ", "a">>, <<"b">>, LongName}

\* the ids the calls name: those given so far and one never given
SearchIds == 1..(MaxSearches + 1)

\* the filters saved with every search of SpecSaved
SomeFilters ==
  [query |-> QueryIphone, budget |-> 1000, category |-> "Tous",
   color |-> "Toutes"]

\* main.py:137-154  a call of create_saved_search
CreateSavedSearch(user_id, name) ==
  /\ search_seq < MaxSearches
  /\ LET r == create_saved_search(user_id, name, SomeFilters, QueryIphone)
     IN  /\ saved_searches' = r.saved_searches
         /\ search_seq' = IF r.success THEN r.search_id ELSE search_seq
         /\ db_ret' = [call |-> "create_saved_search", success |-> r.success,
                       search_id |-> r.search_id]
  /\ UNCHANGED <<session, pure, users, sessions, tokens_issued, now>>

\* main.py:156-168  a call of get_saved_searches
GetSavedSearches(user_id) ==
  /\ \E list \in get_saved_searches(user_id) :
       db_ret' = [call |-> "get_saved_searches", user_id |-> user_id,
                  ret |-> list]
  /\ UNCHANGED <<session, pure, users, sessions, saved_searches, search_seq,
                 tokens_issued, now>>

\* main.py:170-184  a call of delete_saved_search
DeleteSavedSearch(user_id, search_id) ==
  /\ LET r == delete_saved_search(user_id, search_id)
     IN  /\ saved_searches' = r.saved_searches
         /\ db_ret' = [call |-> "delete_saved_search", success |-> r.success]
  /\ UNCHANGED <<session, pure, users, sessions, search_seq, tokens_issued, now>>

\* main.py:186-203  a call of toggle_favorite
ToggleFavorite(user_id, search_id) ==
  /\ LET r == toggle_favorite(user_id, search_id)
     IN  /\ saved_searches' = r.saved_searches
         /\ db_ret' = [call |-> "toggle_favorite", success |-> r.success]
  /\ UNCHANGED <<session, pure, users, sessions, search_seq, tokens_issued, now>>

\* a day passes
Tick ==
  /\ now < MaxNow
  /\ now' = now + 1
  /\ UNCHANGED <<session, pure, users, sessions, saved_searches, search_seq,
                 tokens_issued, db_ret>>

InitSaved ==
  /\ SessionInit
  /\ collection = << >>
  /\ PureIdle

NextSaved ==
  \/ \E user_id \in SearchUsers, name \in SearchNames :
       CreateSavedSearch(user_id, name)
  \/ \E user_id \in SearchUsers : GetSavedSearches(user_id)
  \/ \E user_id \in SearchUsers, search_id \in SearchIds :
       DeleteSavedSearch(user_id, search_id)
  \/ \E user_id \in SearchUsers, search_id \in SearchIds :
       ToggleFavorite(user_id, search_id)
  \/ now < MaxSavedNow /\ Tick

SpecSaved == InitSaved /\ [][NextSaved]_vars

(* ------------- the users and sessions of the database, called directly - *)

\* main.py:38-68, 237-251  an empty database and a new session, whose first
\* run stops at the login page
FreshStart ==
  /\ users = {}
  /\ sessions = {}
  /\ tokens_issued = 0
  /\ now = 0
  /\ saved_searches = << >>
  /\ search_seq = 0
  /\ db_ret = NoCall
  /\ auth_session_token = NoToken
  /\ auth_user = NoUser
  /\ show_saved_searches_page = FALSE
  /\ loaded_search = NoSearch
  /\ using_saved_search = FALSE
  /\ query = << >>
  /\ uploaded_file = "none"
  /\ FilterDefaults
  /\ page_offset = 0
  /\ results = << >>
  /\ current_idx = 0
  /\ page_results = << >>
  /\ view = "login"
  /\ last_event = "start"
  /\ scroll_calls = 0
  /\ compare_list = {}
  /\ source_up = TRUE

\* the addresses given: one, the same in capitals, another, and a text
\* without "@"
Emails == {TheEmail, <<"A", "@", "X">>, <<"b", "@", "x">>, <<"a", "x">>}

\* a password that is not the one registered
WrongPassword == <<"1", "2", "3", "4", "5", "6", "7", "8">>

\* the passwords given: the one registered, another, one too short, none
Passwords == {ThePassword, WrongPassword, <<"p", "w">>, << >>}

\* the salts secrets.token_hex can make
Salts == {1}

\* the tokens the calls name: those issued so far and one never issued
TokenIds == 1..(MaxTokens + 1)

\* main.py:70-86  a call of register_user
RegisterUser(email, password) ==
  /\ \E salt \in Salts :
       LET r == register_user(email, password, salt)
       IN  /\ users' = r.users
           /\ db_ret' = [call |-> "register_user", success |-> r.success]
  /\ UNCHANGED <<session, pure, sessions, saved_searches, search_seq,
                 tokens_issued, now>>

\* main.py:88-108  a call of login_user
LoginUser(email, password) ==
  /\ tokens_issued < MaxTokens
  /\ LET r == login_user(email, password)
     IN  /\ sessions' = r.sessions
         /\ tokens_issued' = IF r.success THEN tokens_issued + 1 ELSE tokens_issued
         /\ db_ret' = [call |-> "login_user", success |-> r.success,
                       session_token |-> r.session_token]
  /\ UNCHANGED <<session, pure, users, saved_searches, search_seq, now>>

\* main.py:110-124  a call of verify_session
VerifySession(session_token) ==
  /\ db_ret' = [call |-> "verify_session", session_token |-> session_token,
                ret |-> verify_session(session_token)]
  /\ UNCHANGED <<session, pure, users, sessions, saved_searches, search_seq,
                 tokens_issued, now>>

\* main.py:126-135  a call of logout_user
LogoutUser(session_token) ==
  /\ sessions' = logout_user(session_token)
  /\ db_ret' = [call |-> "logout_user", session_token |-> session_token]
  /\ UNCHANGED <<session, pure, users, saved_searches, search_seq,
                 tokens_issued, now>>

InitTokens ==
  /\ FreshStart
  /\ collection = << >>
  /\ PureIdle

NextTokens ==
  \/ \E email \in Emails, password \in Passwords : RegisterUser(email, password)
  \/ \E email \in Emails, password \in Passwords : LoginUser(email, password)
  \/ \E session_token \in TokenIds : VerifySession(session_token)
  \/ \E session_token \in TokenIds : LogoutUser(session_token)
  \/ Tick

SpecTokens == InitTokens /\ [][NextTokens]_vars

(* ------------------ the login page, the sidebar, the gate -------------- *)

\* what a run of the script writes
run_vars == <<widgets, results, current_idx, page_results, view, scroll_calls,
              auth_session_token, auth_user, loaded_search, using_saved_search>>

\* main.py:317-327  the Register button of the login page, with the three
\* texts typed; the run goes on to its end, the login page still shown
Register(email, password, confirm) ==
  /\ view = "login"
  /\ last_event' = "register"
  /\ IF email = << >> \/ password = << >> \/ password # confirm
     THEN UNCHANGED users
     ELSE \E salt \in Salts : users' = register_user(email, password, salt).users
  /\ UNCHANGED <<run_vars, page_offset, collection, source_up, compare_list,
                 show_saved_searches_page, sessions, saved_searches, search_seq,
                 tokens_issued, now, db_ret, pure>>

\* main.py:299-310  the Login button of the login page, with the two texts
\* typed: after a successful login_user the token and the user
\* verify_session returns for it are put in the session and st.rerun() runs
\* the script again
Login(email, password) ==
  /\ view = "login"
  /\ tokens_issued < MaxTokens
  /\ last_event' = "login"
  /\ LET r == login_user(email, password)
     IN  IF email # << >> /\ password # << >> /\ r.success
         THEN /\ sessions' = r.sessions
              /\ tokens_issued' = tokens_issued + 1
              /\ RunScript(query, budget, category_filter, color_filter,
                           uploaded_file, page_offset,
                           [token    |-> r.session_token,
                            user     |-> verify_session_in(r.sessions, r.session_token),
                            sessions |-> r.sessions,
                            show     |-> show_saved_searches_page,
                            loaded   |-> loaded_search])
         ELSE UNCHANGED <<run_vars, sessions, tokens_issued>>
  /\ UNCHANGED <<page_offset, collection, source_up, compare_list,
                 show_saved_searches_page, users, saved_searches, search_seq,
                 now, db_ret, pure>>

\* main.py:271-275  the run that handles a click in the sidebar shows the
\* buttons of the sidebar only to a user it has verified
SidebarReached ==
  get_current_user(auth_session_token, auth_user, sessions).user # NoUser

\* main.py:277-282  the Logout button of the sidebar: logout_user, the
\* session emptied, and st.rerun() runs the script again. A run that cannot
\* verify the token does not show the button and goes on.
Logout ==
  /\ auth_user # NoUser
  /\ IF SidebarReached
     THEN /\ last_event' = "logout"
          /\ sessions' = logout_user(auth_session_token)
          /\ show_saved_searches_page' = FALSE
          /\ RunScript(query, budget, category_filter, color_filter,
                       uploaded_file, page_offset,
                       [token    |-> NoToken,
                        user     |-> NoUser,
                        sessions |-> logout_user(auth_session_token),
                        show     |-> FALSE,
                        loaded   |-> loaded_search])
     ELSE /\ last_event' = "click"
          /\ UNCHANGED <<sessions, show_saved_searches_page>>
          /\ RunScript(query, budget, category_filter, color_filter,
                       uploaded_file, page_offset, Held)
  /\ UNCHANGED <<page_offset, collection, source_up, compare_list, users,
                 saved_searches, search_seq, tokens_issued, now, db_ret, pure>>

\* main.py:284-286  the My Saved Searches button of the sidebar: the page
\* flag is turned over and st.rerun() runs the script again
ToggleSavedSearchesPage ==
  /\ auth_user # NoUser
  /\ IF SidebarReached
     THEN /\ last_event' = "saved_searches"
          /\ show_saved_searches_page' = ~show_saved_searches_page
          /\ RunScript(query, budget, category_filter, color_filter,
                       uploaded_file, page_offset,
                       [Held EXCEPT !.show = ~show_saved_searches_page])
     ELSE /\ last_event' = "click"
          /\ UNCHANGED show_saved_searches_page
          /\ RunScript(query, budget, category_filter, color_filter,
                       uploaded_file, page_offset, Held)
  /\ UNCHANGED <<page_offset, collection, source_up, compare_list, database, pure>>

\* the addresses and passwords typed in SpecGate
GateEmails == {TheEmail, <<"A", "@", "X">>, << >>}

GatePasswords == {ThePassword, <<"p", "w">>, << >>}

\* a new session over an empty database and a small collection
InitGate ==
  /\ FreshStart
  /\ collection = [i \in 1..MaxCandidates |-> CatalogPoint(i)]
  /\ PureIdle

NextGate ==
  \/ \E email \in GateEmails, password \in GatePasswords, confirm \in GatePasswords :
       Register(email, password, confirm)
  \/ \E email \in GateEmails, password \in GatePasswords \cup {WrongPassword} :
       Login(email, password)
  \/ Logout
  \/ ToggleSavedSearchesPage
  \/ \E q \in Queries : SetQuery(q)
  \/ \E p_id \in CompareIds : ToggleCompare(p_id)
  \/ Tick

SpecGate == InitGate /\ [][NextGate]_vars

(* ------------------------ saving and using searches -------------------- *)

\* main.py:823, 371-377  the run that handles a click on Save gets to the
\* widget: past the gate and, in a search of its own, to a list with
\* products
SaveReached ==
  /\ GatePasses
  /\ IF using_saved_search THEN Len(WidgetOutcome.results) > 0 ELSE source_up

\* main.py:378-387  the Save button under the results, with the name typed.
\* The keys of the text box and of the button hold id(filters), the address
\* of a dictionary made anew by every run: the click and the name reach the
\* run that handles them only when the dictionary lands at the same address
\* (same_key). The run goes on to its end.
SaveSearch(name) ==
  /\ view = "results"
  /\ search_seq < MaxSearches
  /\ last_event' = "save"
  /\ \E same_key \in BOOLEAN :
       IF same_key /\ SaveReached /\ name # << >>
       THEN LET r == create_saved_search(
                       auth_user.user_id, name,
                       [query |-> query, budget |-> budget,
                        category |-> category_filter, color |-> color_filter],
                       query)
            IN  /\ saved_searches' = r.saved_searches
                /\ search_seq' = IF r.success THEN r.search_id ELSE search_seq
       ELSE UNCHANGED <<saved_searches, search_seq>>
  /\ RunScript(query, budget, category_filter, color_filter, uploaded_file,
               page_offset, Held)
  /\ UNCHANGED <<page_offset, collection, source_up, compare_list,
                 show_saved_searches_page, users, sessions, tokens_issued, now,
                 db_ret, pure>>

\* main.py:331-343  the saved searches page lists the search of the id given
\* for the user of the session
Listed(search_id) ==
  /\ view = "saved_searches"
  /\ RowsOf(auth_user.user_id, search_id) # {}

\* the row of the table that the page lists under the id given
ListedRow(search_id) ==
  saved_searches[CHOOSE i \in RowsOf(auth_user.user_id, search_id) : TRUE]

\* main.py:354-357  the Use button of a saved search: the search is loaded,
\* the page closed, and st.rerun() runs the script again
UseSavedSearch(search_id) ==
  /\ Listed(search_id)
  /\ IF SidebarReached
     THEN /\ last_event' = "use"
          /\ show_saved_searches_page' = FALSE
          /\ RunScript(query, budget, category_filter, color_filter,
                       uploaded_file, page_offset,
                       [Held EXCEPT !.show = FALSE,
                                    !.loaded = SearchDict(ListedRow(search_id))])
     ELSE /\ last_event' = "click"
          /\ UNCHANGED show_saved_searches_page
          /\ RunScript(query, budget, category_filter, color_filter,
                       uploaded_file, page_offset, Held)
  /\ UNCHANGED <<page_offset, collection, source_up, compare_list, database, pure>>

\* main.py:360-362  the Fav button of a saved search
FavSavedSearch(search_id) ==
  /\ Listed(search_id)
  /\ last_event' = IF SidebarReached THEN "fav" ELSE "click"
  /\ saved_searches' =
       IF SidebarReached
       THEN toggle_favorite(auth_user.user_id, search_id).saved_searches
       ELSE saved_searches
  /\ RunScript(query, budget, category_filter, color_filter, uploaded_file,
               page_offset, Held)
  /\ UNCHANGED <<page_offset, collection, source_up, compare_list,
                 show_saved_searches_page, users, sessions, search_seq,
                 tokens_issued, now, db_ret, pure>>

\* main.py:365-369  the Del button of a saved search
DelSavedSearch(search_id) ==
  /\ Listed(search_id)
  /\ last_event' = IF SidebarReached THEN "del" ELSE "click"
  /\ saved_searches' =
       IF SidebarReached
       THEN delete_saved_search(auth_user.user_id, search_id).saved_searches
       ELSE saved_searches
  /\ RunScript(query, budget, category_filter, color_filter, uploaded_file,
               page_offset, Held)
  /\ UNCHANGED <<page_offset, collection, source_up, compare_list,
                 show_saved_searches_page, users, sessions, search_seq,
                 tokens_issued, now, db_ret, pure>>

\* the names typed for a search to save
SavedNames == {<< >>, <<"a">>}

\* the budgets of SpecLoaded
LoadedBudgets == {1000, DefaultBudget}

\* a session after the login over a small collection
InitLoaded ==
  /\ SessionInit
  /\ collection = [i \in 1..MaxCandidates |-> CatalogPoint(i)]
  /\ PureIdle

NextLoaded ==
  \/ \E q \in {<< >>, QueryIphone} : SetQuery(q)
  \/ \E b \in LoadedBudgets : SetBudget(b)
  \/ \E up \in Uploads : SetUpload(up)
  \/ \E name \in SavedNames : SaveSearch(name)
  \/ ToggleSavedSearchesPage
  \/ \E search_id \in SearchIds : UseSavedSearch(search_id)
  \/ \E search_id \in SearchIds : FavSavedSearch(search_id)
  \/ \E search_id \in SearchIds : DelSavedSearch(search_id)

SpecLoaded == InitLoaded /\ [][NextLoaded]_vars

(* ================================ claims =============================== *)

(* --------------------------- session cursor ---------------------------- *)

\* C1: a run triggered by a changed query text, image, budget, category or
\* color slices the result list at offset 0, with page_offset reset to 0,
\* whatever the cursor held before.
C1_FreshQueryResetsCursor ==
  (last_event = "input" /\ view = "results") =>
    (page_offset = 0 /\ current_idx = 0)

\* C2: the offset a run slices at lies in [0, max(0, (total_pages-1) *
\* page_size)], so the displayed page number never exceeds total_pages and a
\* non-empty result list never yields an empty page.
C2_SliceOffsetClamped ==
  view = "results" =>
    /\ current_idx >= 0
    /\ current_idx <= Max(0, (TotalPages(results) - 1) * items_per_page)
    /\ (current_idx \div items_per_page) + 1 <= TotalPages(results)
    /\ page_results # << >>

\* C19: a search that finds no candidate shows the no-products message, no
\* page and no navigation, and leaves the cursor at 0, also after a search
\* that had left it on a later page.
C19_NoProductsCursorZero ==
  view = "no_products" =>
    /\ results = << >>
    /\ page_results = << >>
    /\ ~ENABLED NextPage
    /\ ~ENABLED PrevPage
    /\ page_offset = 0

\* C3: in every session state page_offset is a non-negative multiple of the
\* page size.
C3_OffsetMultipleOfPageSize ==
  /\ page_offset \in Nat
  /\ page_offset % items_per_page = 0

\* C3 witness: the cursor has gone forward and come back one page, and
\* still sits past the first page.
C3_Witness ==
  /\ last_event = "prev"
  /\ page_offset = items_per_page

\* C4: every step that raises the cursor raises it by exactly page_size and
\* starts where Next is enabled (offset + page_size < len(results)); every
\* step that lowers it lowers it by exactly page_size and starts past the
\* first page; so on the last page Next, and on the first page Previous,
\* leave the cursor unchanged.
C4_NavigationSteps ==
  [][ /\ page_offset' > page_offset =>
           /\ page_offset' = page_offset + items_per_page
           /\ view = "results"
           /\ page_offset + items_per_page < Len(results)
      /\ page_offset' < page_offset =>
           /\ page_offset' = page_offset - items_per_page
           /\ view = "results"
           /\ page_offset >= items_per_page
      /\ last_event' = "next" /\ page_offset' # page_offset =>
           page_offset' = page_offset + items_per_page
      /\ last_event' = "prev" /\ page_offset' # page_offset =>
           page_offset' = page_offset - items_per_page
    ]_vars

\* C4 witness: Next has moved the cursor onto the last page of a list of
\* several pages, where Next is now disabled and Previous enabled.
C4_Witness ==
  /\ last_event = "next"
  /\ view = "results"
  /\ page_offset >= items_per_page
  /\ page_offset + items_per_page >= Len(results)
  /\ page_offset < Len(results)

(* ----------------------------- reorder pass ---------------------------- *)

Ids(s) == {s[i].id : i \in 1..Len(s)}

\* how often id occurs in s
Count(s, id) == Cardinality({i \in 1..Len(s) : s[i].id = id})

\* the rank (position) a candidate id has in the input list
RankIn(s, id) == CHOOSE i \in 1..Len(s) : s[i].id = id

\* the price the reorder pass is to use for a candidate: its number, or the
\* budget when the price is missing or unparsable
PriceOrBudget(x, b) ==
  IF x.payload.price.t = "num" THEN x.payload.price.v ELSE b

DistanceToBudget(x, b) == Abs(PriceOrBudget(x, b) - b)

HeadLen == Min(TOP_K, Len(arg_list))

\* C5: the output of the reorder pass has the length of its input and holds
\* every candidate id exactly as often as the input does.
C5_ReorderIsPermutation ==
  fn_pc = "out" =>
    /\ Len(ret_list) = Len(arg_list)
    /\ Ids(ret_list) = Ids(arg_list)
    /\ \A id \in Ids(arg_list) : Count(ret_list, id) = 1

\* C5 witness: a list longer than the head was reordered, in the head and
\* in the tail.
C5_Witness ==
  /\ fn_pc = "out"
  /\ Len(arg_list) = MaxRanked
  /\ \E i \in 1..TOP_K : ret_list[i] # arg_list[i]
  /\ \E i \in (TOP_K + 1)..Len(arg_list) : ret_list[i] # arg_list[i]

\* C6: reordering the output again with the same budget changes nothing.
C6_ReorderIdempotent ==
  fn_pc = "out" => Reorder(ret_list, arg_budget) = ret_list

\* C6 witness: the first pass changed the order of a list that has, in the
\* head, two candidates of different price at the same distance from the
\* budget and, in the tail, two candidates of equal price.
C6_Witness ==
  /\ fn_pc = "out"
  /\ ret_list # arg_list
  /\ \E i, j \in 1..HeadLen :
       /\ i # j
       /\ PriceOrBudget(arg_list[i], arg_budget) # PriceOrBudget(arg_list[j], arg_budget)
       /\ DistanceToBudget(arg_list[i], arg_budget) = DistanceToBudget(arg_list[j], arg_budget)
  /\ \E i, j \in (TOP_K + 1)..Len(arg_list) :
       /\ i # j
       /\ PriceOrBudget(arg_list[i], arg_budget) = PriceOrBudget(arg_list[j], arg_budget)

\* C7: the first min(7, n) positions hold exactly the min(7, n) highest
\* ranked candidates, by ascending |price - budget|, equal distances in rank
\* order; a list of fewer than 7 has no tail.
C7_HeadByBudgetDistance ==
  fn_pc = "out" =>
    /\ Len(ret_list) >= HeadLen
    /\ {ret_list[i].id : i \in 1..HeadLen} = {arg_list[i].id : i \in 1..HeadLen}
    /\ \A i, j \in 1..HeadLen :
         i < j =>
           \/ DistanceToBudget(ret_list[i], arg_budget)
                < DistanceToBudget(ret_list[j], arg_budget)
           \/ /\ DistanceToBudget(ret_list[i], arg_budget)
                   = DistanceToBudget(ret_list[j], arg_budget)
              /\ RankIn(arg_list, ret_list[i].id) < RankIn(arg_list, ret_list[j].id)
    /\ (Len(arg_list) < TOP_K => Len(ret_list) = Len(arg_list))

\* C7 witness: a full head was taken out of rank order, the cheaper
\* candidate placed after a dearer one that is nearer the budget.
C7_Witness ==
  /\ fn_pc = "out"
  /\ Len(arg_list) > TOP_K
  /\ \E i \in 1..(TOP_K - 1) :
       /\ PriceOrBudget(ret_list[i], arg_budget) > PriceOrBudget(ret_list[i + 1], arg_budget)
       /\ RankIn(arg_list, ret_list[i].id) > RankIn(arg_list, ret_list[i + 1].id)

\* C8: the positions after the first 7 hold the remaining ranked candidates
\* by ascending raw price, equal prices in rank order, behind the head.
C8_TailByRawPrice ==
  fn_pc = "out" =>
    /\ Len(ret_list) = Len(arg_list)
    /\ {ret_list[i].id : i \in (TOP_K + 1)..Len(ret_list)}
         = {arg_list[i].id : i \in (TOP_K + 1)..Len(arg_list)}
    /\ \A i, j \in (TOP_K + 1)..Len(ret_list) :
         i < j =>
           \/ PriceOrBudget(ret_list[i], arg_budget) < PriceOrBudget(ret_list[j], arg_budget)
           \/ /\ PriceOrBudget(ret_list[i], arg_budget) = PriceOrBudget(ret_list[j], arg_budget)
              /\ RankIn(arg_list, ret_list[i].id) < RankIn(arg_list, ret_list[j].id)

\* C8 witness: a tail of three was reordered: the cheapest came from the
\* last rank, and the order is not the order by distance to the budget.
C8_Witness ==
  /\ fn_pc = "out"
  /\ Len(arg_list) = TOP_K + 3
  /\ ret_list[TOP_K + 1].id = arg_list[TOP_K + 3].id
  /\ DistanceToBudget(ret_list[TOP_K + 1], arg_budget)
       > DistanceToBudget(ret_list[TOP_K + 2], arg_budget)
  /\ PriceOrBudget(ret_list[TOP_K + 2], arg_budget)
       = PriceOrBudget(ret_list[TOP_K + 3], arg_budget)

\* the list with every missing or unparsable price replaced by the budget
WithBudgetPrices(s, b) ==
  [i \in 1..Len(s) |->
     [s[i] EXCEPT !.payload = [price |-> Num(PriceOrBudget(s[i], b))]]]

IdSeq(s) == [i \in 1..Len(s) |-> s[i].id]

HasNoNumber(x) == x.payload.price.t # "num"

\* C9: a candidate whose price is missing or unparsable stays in the output,
\* at the position it would have were its price the budget.
C9_UnparsablePriceAsBudget ==
  fn_pc = "out" =>
    /\ \A i \in 1..Len(arg_list) :
         HasNoNumber(arg_list[i]) => Count(ret_list, arg_list[i].id) = 1
    /\ IdSeq(ret_list) = IdSeq(Reorder(WithBudgetPrices(arg_list, arg_budget), arg_budget))

\* C9 witness: a candidate with an unparsable price led the head ahead of a
\* higher ranked priced one, and another such candidate was moved in the tail.
C9_Witness ==
  /\ fn_pc = "out"
  /\ Len(arg_list) > TOP_K
  /\ HasNoNumber(ret_list[1])
  /\ ret_list[1].id # arg_list[1].id
  /\ \E i \in (TOP_K + 1)..Len(ret_list) :
       /\ HasNoNumber(ret_list[i])
       /\ ret_list[i].id # arg_list[i].id

(* ------------------------------ score sort ----------------------------- *)

BoostPart(i) ==
  ret_list[i].score
    - Similarity(SearchVector(query, uploaded_file), arg_list[i].vector)

\* the query text occurs in the lower-cased text
Occurs(text) == IsSubstring(Lower(query), Lower(text))

\* how many of the query's words are words of the lower-cased name
WordHits(name) ==
  LET words == Split(Lower(query))
  IN  Cardinality({k \in 1..Len(words) : InList(words[k], Split(Lower(name)))})

\* C12: for a non-empty query text the boost is 0.30 when the text occurs in
\* the product name, plus 0.20 when it occurs in the brand, plus 0.15 times
\* the share of query words that are words of the name (0 for a query of no
\* words); it is at most 0.65 and the score is similarity plus boost, unclipped.
C12_BoostIsSumOfTerms ==
  (fn_pc = "scored" /\ query # << >>) =>
    \A i \in 1..Len(ret_list) :
      LET payload   == arg_list[i].payload
          n_words   == Len(Split(Lower(query)))
          name_term  == IF Occurs(payload.name) THEN (3 * ScoreUnit) \div 10 ELSE 0
          brand_term == IF Occurs(payload.brand) THEN (2 * ScoreUnit) \div 10 ELSE 0
      IN  /\ n_words = 0 => BoostPart(i) = name_term + brand_term
          /\ n_words > 0 =>
               n_words * (BoostPart(i) - name_term - brand_term)
                 = WordHits(payload.name) * ((15 * ScoreUnit) \div 100)
          /\ BoostPart(i) <= (65 * ScoreUnit) \div 100

\* C12 witness: a candidate of similarity 1 got all three terms, a score of
\* 1.65.
C12_Witness ==
  /\ fn_pc = "scored"
  /\ query # << >>
  /\ Occurs(arg_list[1].payload.name)
  /\ Occurs(arg_list[1].payload.brand)
  /\ WordHits(arg_list[1].payload.name) = Len(Split(Lower(query)))
  /\ ret_list[1].score = ScoreUnit + (65 * ScoreUnit) \div 100

\* C13: when the query vector comes from an uploaded image, or the text box
\* is empty, the boost of every candidate is zero: each score in the list
\* shown is the cosine similarity alone, whatever the text box holds.
C13_ImageSearchHasNoBoost ==
  (view = "results" /\ (uploaded_file # "none" \/ query = << >>)) =>
    \A i \in 1..Len(results) :
      results[i].score
        = Similarity(SearchVector(query, uploaded_file), collection[results[i].id].vector)

\* the longer name is the name with one word put before or after it
AddedAtAnEnd ==
  LET before == Split(arg_list[1].payload.name)
      after  == Split(arg_list[2].payload.name)
  IN  \/ SubSeq(after, 1, Len(before)) = before
      \/ SubSeq(after, 2, Len(after)) = before

\* C14: adding a word of the query to a product name that matches the query
\* never decreases the boost, wherever in the name the word is put.
C14_BoostMonotonic ==
  (fn_pc = "scored" /\ Len(arg_list) = 2 /\ BoostPart(1) > 0) =>
    BoostPart(2) >= BoostPart(1)

\* C14 as amended: adding a word of the query at the start or at the end of
\* a product name never decreases the boost.
C14_BoostMonotonicAtEnds ==
  (fn_pc = "scored" /\ Len(arg_list) = 2 /\ AddedAtAnEnd) =>
    BoostPart(2) >= BoostPart(1)

\* C14 witness: a word added at the end of a name that held the whole query
\* text raised the boost.
C14_Witness ==
  /\ fn_pc = "scored"
  /\ Len(arg_list) = 2
  /\ Len(Split(arg_list[1].payload.name)) >= 2
  /\ SubSeq(Split(arg_list[2].payload.name), 1, Len(Split(arg_list[1].payload.name)))
       = Split(arg_list[1].payload.name)
  /\ Occurs(arg_list[1].payload.name)
  /\ BoostPart(2) > BoostPart(1)

(* ------------------------------ Scenario A ----------------------------- *)

\* the collection holds the two candidates of Scenario A and nothing else,
\* and the last run searched for the text "iphone"
ScenarioA ==
  /\ collection \in {<<CandidatePoint(1, Iphone15), CandidatePoint(2, GalaxyS23)>>,
                     <<CandidatePoint(1, GalaxyS23), CandidatePoint(2, Iphone15)>>}
  /\ query = QueryIphone
  /\ uploaded_file = "none"

\* C15: in Scenario A with budget 2000 the iPhone is the first of the
\* results shown.
C15_ScenarioAIphoneFirst ==
  (ScenarioA /\ budget = 2000) =>
    /\ results # << >>
    /\ results[1].payload.name = Iphone15.name

\* C15 as amended: in Scenario A with budget 2000 the fetch filter drops the
\* iPhone (price 3000) and the Galaxy is the only result; the iPhone is the
\* first of the results shown when the budget is at least 3000.
C15_ScenarioAByBudget ==
  ScenarioA =>
    /\ view = "results"
    /\ budget = 2000 =>
         /\ Len(results) = 1
         /\ results[1].payload.name = GalaxyS23.name
    /\ budget >= 3000 =>
         /\ Len(results) = 2
         /\ results[1].payload.name = Iphone15.name

\* C15 witness: Scenario A was run with budget 3000, the iPhone's price, and
\* the iPhone came first although it was fetched second.
C15_Witness ==
  /\ ScenarioA
  /\ budget = 3000
  /\ view = "results"
  /\ results[1].id = 2
  /\ results[1].payload.name = Iphone15.name

(* --------------------------- failures of a run ------------------------- *)

\* C16: an embedding or query vector of norm zero never leaves a candidate
\* with an undefined score in the ranked list.
C16_NoUndefinedScore ==
  view = "results" => \A i \in 1..Len(results) : results[i].score # NaN

\* the points the last run fetched that the scoring loop can score
Scorable ==
  LET points == Fetch(budget, category_filter, color_filter)
  IN  {points[i].id : i \in
         {j \in 1..Len(points) :
            ~ScoreRaises(points[j], SearchVector(query, uploaded_file), QueryText(query))}}

\* C17: a candidate on which scoring or display raises is skipped, and the
\* run still ranks and shows every other candidate instead of the error.
C17_CandidateErrorIsolated ==
  (view # "welcome" /\ Scorable # {}) =>
    /\ view = "results"
    /\ Scorable \subseteq Ids(results)


\* C18: a run whose fetch fails ends in the error message with nothing
\* displayed, after a single call of the vector database, and leaves
\* page_offset and compare_list as its request found them (the Clear button
\* empties the list in the run before the one that fails).
C18_SourceFailureAbortsRun ==
  [][ view' = "error" =>
        /\ scroll_calls' = 1
        /\ results' = << >>
        /\ page_results' = << >>
        /\ page_offset' = page_offset
        /\ last_event' # "clear" => compare_list' = compare_list
    ]_vars

\* C18 witness: a search failed with the cursor on a later page and a
\* product selected for comparison, both still in place.
C18_Witness ==
  /\ view = "error"
  /\ ~source_up
  /\ last_event = "input"
  /\ scroll_calls = 1
  /\ page_offset > 0
  /\ compare_list # {}

(* ------------------------------- paging -------------------------------- *)

\* C20: no page sliced at an offset 0, 9, 18, ... holds more than 9 items,
\* and the pages of the offsets 0 .. (total_pages - 1) * 9, taken in order,
\* are consecutive stretches of the list: together they are the list, every
\* element exactly once.
C20_PagesPartitionResults ==
  /\ Len(page_results) <= items_per_page
  /\ page_offset > 0 =>
       page_results = SubSeq(arg_list, current_idx + 1,
                             Min(current_idx + items_per_page, Len(arg_list)))
  /\ ret_list = SubSeq(arg_list, 1, Min(page_offset, Len(arg_list)))
  /\ page_offset = TotalPages(arg_list) * items_per_page => ret_list = arg_list

\* C20 witness: every page of a list of more than two pages was taken, the
\* last one short.
C20_Witness ==
  /\ fn_pc = "in"
  /\ Len(arg_list) > 2 * items_per_page
  /\ Len(arg_list) % items_per_page # 0
  /\ page_offset = TotalPages(arg_list) * items_per_page
  /\ Len(page_results) = Len(arg_list) % items_per_page
  /\ ret_list = arg_list

(* ----------------------------- page count ------------------------------ *)

\* the least number of groups of d that hold n things
CeilDiv(n, d) == CHOOSE k \in 0..n : k * d >= n /\ (k = 0 \/ (k - 1) * d < n)

\* C21: for every list length 0..100 the page count is the length divided by
\* the page size and rounded up, 0 for the empty list; the pages taken while
\* paging are counted by the same number.
C21_TotalPagesIsCeiling ==
  /\ TotalPages(arg_list) = CeilDiv(Len(arg_list), items_per_page)
  /\ Len(arg_list) = 0 => TotalPages(arg_list) = 0
  /\ page_offset <= TotalPages(arg_list) * items_per_page
  /\ page_offset = TotalPages(arg_list) * items_per_page => ret_list = arg_list

\* C21 witness: the longest list, twelve pages of it taken, the last a page
\* of one item.
C21_Witness ==
  /\ Len(arg_list) = MaxResults
  /\ TotalPages(arg_list) = 12
  /\ page_offset = 12 * items_per_page
  /\ Len(page_results) = 1

(* ----------------------------- determinism ----------------------------- *)

\* the query, the budget, the filters, the image and the collection are the
\* same before and after the step
SameSearchInputs == UNCHANGED <<widgets, collection>>

LastPageOffset == (TotalPages(results) - 1) * items_per_page

\* C25: while one search with a non-empty list is repeated and only the
\* page buttons are clicked, the cursor stays a multiple of the page size
\* with 0 <= page_offset < len(results), the page shown holds at least one
\* item, and Next Page is enabled exactly below the last page, so that
\* repeated clicks on it arrive there.
C25_CursorStaysInsideList ==
  view = "results" =>
    /\ 0 <= page_offset
    /\ page_offset < Len(results)
    /\ page_offset % items_per_page = 0
    /\ current_idx = page_offset
    /\ Len(page_results) >= 1
    /\ page_offset <= LastPageOffset
    /\ ~NextDisabled <=> page_offset < LastPageOffset

\* C25 witness: the last page of a list of three pages was reached with
\* Next Page, where the button is disabled.
C25_Witness ==
  /\ view = "results"
  /\ last_event = "next"
  /\ Len(results) > 2 * items_per_page
  /\ page_offset = LastPageOffset
  /\ NextDisabled

(* --------------------------- comparison list --------------------------- *)

\* C26: the comparison list never holds more than 5 products; a click on
\* the compare button of a selected product removes it, a click on that of
\* an unselected product adds it when fewer than 5 are selected and changes
\* nothing otherwise, and Clear Comparison List empties the list.
C26_CompareListAtMostFive ==
  [][/\ Cardinality(compare_list') <= MaxCompare
     /\ \A p_id \in CompareCardIds :
          ToggleCompare(p_id) =>
            compare_list' =
              IF p_id \in compare_list THEN compare_list \ {p_id}
              ELSE IF Cardinality(compare_list) < MaxCompare
                   THEN compare_list \cup {p_id}
                   ELSE compare_list
     /\ ClearCompare => compare_list' = {}]_vars

\* C26 witness: five products are selected after a click on a compare
\* button while the page shows the cards of more than five.
C26_Witness ==
  /\ view = "results"
  /\ last_event = "compare"
  /\ Cardinality(compare_list) = MaxCompare
  /\ Len(page_results) > MaxCompare

(* ---------------------------- saved searches --------------------------- *)

\* the row of the table with the id given
RowWithId(search_id) ==
  saved_searches[CHOOSE i \in 1..Len(saved_searches) :
                   saved_searches[i].id = search_id]

\* C23: the list get_saved_searches returns for a user holds every saved
\* search of that user once and none of another user, favorites before the
\* others, then the later last use first, then the later creation first.
C23_SavedSearchesOrdered ==
  db_ret.call = "get_saved_searches" =>
    LET list == db_ret.ret
        mine == {i \in 1..Len(saved_searches) :
                   saved_searches[i].user_id = db_ret.user_id}
    IN  /\ Len(list) = Cardinality(mine)
        /\ \A i \in mine : \E k \in 1..Len(list) : list[k].id = saved_searches[i].id
        /\ \A k \in 1..Len(list) :
             \E i \in mine : list[k] = SearchDict(saved_searches[i])
        /\ \A j, k \in 1..Len(list) :
             j < k =>
               LET a == RowWithId(list[j].id)
                   b == RowWithId(list[k].id)
               IN  /\ a.is_favorite >= b.is_favorite
                   /\ a.is_favorite = b.is_favorite => a.last_used >= b.last_used
                   /\ (a.is_favorite = b.is_favorite /\ a.last_used = b.last_used)
                        => a.created_at >= b.created_at

\* C23 witness: a list returned with a favorite ahead of a search created
\* later, while the table holds a search of another user as well.
C23_Witness ==
  /\ db_ret.call = "get_saved_searches"
  /\ Len(db_ret.ret) = 2
  /\ db_ret.ret[1].is_favorite = 1
  /\ db_ret.ret[2].is_favorite = 0
  /\ db_ret.ret[1].created_at < db_ret.ret[2].created_at
  /\ Len(saved_searches) > 2

\* the table without the row of the id given
WithoutRow(search_id) ==
  LET Other(row) == row.id # search_id
  IN  SelectSeq(saved_searches, Other)

\* the table with the favorite mark of the row of the id given turned over
WithMarkFlipped(search_id) ==
  [i \in 1..Len(saved_searches) |->
     IF saved_searches[i].id = search_id
     THEN [saved_searches[i] EXCEPT !.is_favorite = 1 - saved_searches[i].is_favorite]
     ELSE saved_searches[i]]

\* the user given owns a saved search of the id given
Owns(user_id, search_id) ==
  \E i \in 1..Len(saved_searches) :
    saved_searches[i].id = search_id /\ saved_searches[i].user_id = user_id

\* C28: delete_saved_search(u, id) and toggle_favorite(u, id) succeed and
\* change the row of that id, and no other, when it belongs to user u; for
\* the row of another user and for an id without a row they fail and leave
\* the table as it was; a second toggle_favorite(u, id) brings the table
\* back to what it was before the first.
C28_MutationsOwnerScoped ==
  [][\A user_id \in SearchUsers, search_id \in SearchIds :
       /\ DeleteSavedSearch(user_id, search_id) =>
            IF Owns(user_id, search_id)
            THEN db_ret'.success /\ saved_searches' = WithoutRow(search_id)
            ELSE ~db_ret'.success /\ saved_searches' = saved_searches
       /\ ToggleFavorite(user_id, search_id) =>
            IF Owns(user_id, search_id)
            THEN /\ db_ret'.success
                 /\ saved_searches' = WithMarkFlipped(search_id)
                 /\ toggle_favorite(user_id, search_id)'.saved_searches = saved_searches
            ELSE ~db_ret'.success /\ saved_searches' = saved_searches]_vars

\* C28 witness: a call for the saved search of another user has just
\* failed, that search being a favorite next to a search of the caller.
C28_Witness ==
  /\ db_ret.call \in {"delete_saved_search", "toggle_favorite"}
  /\ ~db_ret.success
  /\ Len(saved_searches) = 2
  /\ saved_searches[1].user_id # saved_searches[2].user_id
  /\ saved_searches[1].is_favorite = 1
  /\ saved_searches[2].is_favorite = 0

(* ---------------------------- session tokens --------------------------- *)

\* the registered users whose address and password are those given
Matching(email, password) ==
  {u \in users : /\ u.email = Lower(email)
                 /\ u.password_hash = <<password, u.password_salt>>}

\* C24: login_user gives a token exactly for a registered address with its
\* password, a token unknown until then whose session ends SessionDays
\* later; verify_session gives the user of the session of a token while
\* the clock has not passed its end, and None for a token without a
\* session, after the end, and from logout_user(token) on for ever.
C24_SessionTokenLifecycle ==
  [][/\ \A email \in Emails, password \in Passwords :
          LoginUser(email, password) =>
            IF Matching(email, password) # {}
            THEN /\ db_ret'.success
                 /\ \E session_token \in TokenIds, u \in Matching(email, password) :
                      /\ db_ret'.session_token = session_token
                      /\ verify_session(session_token) = NoUser
                      /\ verify_session(session_token)' =
                           [user_id |-> u.id, email |-> u.email]
                      /\ sessions' = sessions \cup
                           {[user_id       |-> u.id,
                             session_token |-> session_token,
                             expires_at    |-> now + SessionDays]}
            ELSE /\ ~db_ret'.success
                 /\ db_ret'.session_token = NoToken
                 /\ sessions' = sessions
     /\ \A session_token \in TokenIds :
          /\ LogoutUser(session_token) => verify_session(session_token)' = NoUser
          /\ (session_token <= tokens_issued /\ verify_session(session_token) = NoUser)
               => verify_session(session_token)' = NoUser
          /\ session_token > tokens_issued' => verify_session(session_token)' = NoUser
          /\ verify_session(session_token) # NoUser =>
               verify_session(session_token)' \in {verify_session(session_token), NoUser}
     /\ \A s \in sessions' :
          verify_session(s.session_token)' =
            IF now' > s.expires_at THEN NoUser
            ELSE [user_id |-> s.user_id,
                  email   |-> (CHOOSE u \in users' : u.id = s.user_id).email]]_vars

\* C24 witness: verify_session has returned None for the token of a
\* registered user whose session has ended the day before.
C24_Witness ==
  /\ db_ret.call = "verify_session"
  /\ db_ret.ret = NoUser
  /\ \E s \in sessions :
       s.session_token = db_ret.session_token /\ s.expires_at = now - 1
  /\ tokens_issued = 1
  /\ Cardinality(users) = 2

(* ---------------------------------- C27 -------------------------------- *)

\* what the search of a run shows for the keywords and the filters of a saved
\* search, the image and the cursor given
OutcomeOf(search, up, offset) ==
  SearchOutcome(search.keywords, search.filters.budget, search.filters.category,
                search.filters.color, up, offset)

\* C27: a saved search that is loaded when a run starts is applied and
\* cleared by that run exactly when the run has an uploaded image: the list,
\* the page and the view of the run are then those of the keywords, budget,
\* category and color of the saved search, whatever the widgets say, and
\* loaded_search is None afterwards. A run without an image (a text query,
\* no query, or a run stopped before the search) applies no saved search and
\* leaves loaded_search as it was, unless the run follows a click on Use,
\* which loads the search clicked. A run that starts with no saved search
\* loaded applies none.
C27_LoadedSearchAppliedOnlyWithImage ==
  [][ /\ (uploaded_file' # "none" /\ loaded_search # NoSearch)
           => /\ loaded_search' = NoSearch
              /\ using_saved_search'
              /\ results' = OutcomeOf(loaded_search, uploaded_file', page_offset').results
              /\ page_results' =
                   OutcomeOf(loaded_search, uploaded_file', page_offset').page_results
              /\ view' = OutcomeOf(loaded_search, uploaded_file', page_offset').view
      /\ uploaded_file' = "none"
           => /\ ~using_saved_search'
              /\ IF last_event' = "use"
                 THEN \E search_id \in SearchIds :
                        /\ Listed(search_id)
                        /\ loaded_search' = SearchDict(ListedRow(search_id))
                 ELSE loaded_search' = loaded_search
      /\ loaded_search = NoSearch => ~using_saved_search'
      /\ (loaded_search = NoSearch /\ last_event' # "use")
           => loaded_search' = NoSearch
    ]_vars

\* a run with an image has applied and cleared a saved search whose budget
\* gives another list than the widgets of the run would
C27_Witness ==
  /\ using_saved_search
  /\ loaded_search = NoSearch
  /\ uploaded_file # "none"
  /\ view = "results"
  /\ budget = DefaultBudget
  /\ results # SearchOutcome(query, budget, category_filter, color_filter,
                             uploaded_file, page_offset).results

(* ---------------------------------- C29 -------------------------------- *)

\* the run just made went past the gate into the search: it fetched
\* candidates or shows a list, an empty list or the error of the search
PipelineRan ==
  scroll_calls > 0 \/ view \in {"results", "no_products", "error"}

\* C29: a script run (every step but the passing of a day) executes the
\* search pipeline only if get_current_user verified in that run the token
\* the session holds: the token is then still held, verify_session
\* returns a user for it and auth_user is that user; the token is the one
\* held before the run unless the run follows a login. A run that starts
\* with a held token verify_session rejects leaves auth_session_token and
\* auth_user None and runs no pipeline. After the Logout action
\* auth_session_token and auth_user are None, show_saved_searches_page is
\* False and the session row of the token is gone.
C29_PipelineOnlyBehindVerifiedToken ==
  [][ /\ (now' = now /\ PipelineRan')
           => /\ \E session_token \in TokenIds :
                   /\ auth_session_token' = session_token
                   /\ verify_session(session_token)' # NoUser
                   /\ auth_user' = verify_session(session_token)'
              /\ last_event' # "login" => auth_session_token' = auth_session_token
      /\ (/\ now' = now
          /\ auth_session_token # NoToken
          /\ verify_session(auth_session_token) = NoUser)
           => /\ auth_session_token' = NoToken
              /\ auth_user' = NoUser
              /\ ~PipelineRan'
      /\ last_event' = "logout"
           => /\ auth_session_token' = NoToken
              /\ auth_user' = NoUser
              /\ ~show_saved_searches_page'
              /\ view' = "login"
      /\ (last_event' = "logout" /\ last_event # "logout")
           => /\ auth_session_token # NoToken
              /\ sessions' = logout_user(auth_session_token)
              /\ verify_session(auth_session_token)' = NoUser
    ]_vars

\* a run found the token of a search session expired: the session is
\* emptied and the login page shown, the row still in the table
C29_Witness ==
  /\ view = "login"
  /\ last_event \in {"input", "click"}
  /\ auth_session_token = NoToken
  /\ auth_user = NoUser
  /\ \E s \in sessions : s.expires_at < now

====
